---- MODULE Spec2Model ----
(***************************************************************************)
(* Alert delivery pipeline of naualertsbot / airalertbot: the alert queue  *)
(* (AlertsService), the single consumer (WorkerService.run and its         *)
(* fan-out), the persistence bridge (save_alerts_state / load_alerts_state)*)
(* and the GracefulExitManager, as one state machine.  One step of the     *)
(* model is the code a coroutine runs between two suspension points of the *)
(* single-threaded event loop.                                             *)
(***************************************************************************)
EXTENDS Integers, Sequences, FiniteSets, TLC

\* ------------------------------------------------------------------ bounds
MaxAlerts == 2          \* webhook bodies received over the whole behaviour
MaxRestarts == 1        \* process restarts after an exit
MaxSignals == 2         \* termination signals delivered per process run
MaxChats == 2           \* chat identifiers 1..MaxChats

\* ------------------------------------------------------------- data model
Region == 1             \* AlertsService.region, the configured region
OtherRegion == Region + 1

Chats == 1..MaxChats

\* The queue's shutdown sentinel (Python None).
None == [id |-> 0, region_id |-> 0]

\* The value of chat_id and migrate_to_chat_id outside an iteration of the
\* fan-out loop (no chat has this identifier).
NoChat == 0

\* models.Alert, reduced to its identity and its region.
Alert(i, r) == [id |-> i, region_id |-> r]

\* Alert.model_dump_json() / Alert.json(): by_alias defaults to False, so
\* the keys are the field names (region_id, alarm_type, created_at).
model_dump_json(a) == [form |-> "byname", alert |-> a]

\* What Alert.model_validate_json / parse_raw / Alert(**data) accept: the
\* fields are declared with Field(alias=...), so only the alias keys
\* (regionId, alarmType, createdAt) populate them.
ValidationOk(rec) == rec.form = "alias"

\* Alert.model_validate_json(rec) for a record that validates.
model_validate_json(rec) == rec.alert

\* redis LPUSH: the value becomes the new head of the list.
LPushHead(list, v) == <<v>> \o list

LPush(list, v) == LPushHead(list, v)

\* redis LRANGE key 0 -1: the whole list, head first.
LRangeAll(list) == list

\* Faulty load loop: the first record that does not validate ends the loop.
RECURSIVE LoadedAlertsStops(_)
LoadedAlertsStops(recs) ==
    IF recs = <<>> THEN <<>>
    ELSE IF ValidationOk(Head(recs))
         THEN <<model_validate_json(Head(recs))>> \o LoadedAlertsStops(Tail(recs))
         ELSE <<>>

\* load_alerts_state's loop: the alerts put on the queue, in loop order.
RECURSIVE LoadedAlerts(_)
LoadedAlerts(recs) ==
    IF recs = <<>> THEN <<>>
    ELSE IF ValidationOk(Head(recs))
         THEN <<model_validate_json(Head(recs))>> \o LoadedAlerts(Tail(recs))
         ELSE LoadedAlerts(Tail(recs))

RECURSIVE SeqToSet(_)
SeqToSet(s) == IF s = <<>> THEN {} ELSE {Head(s)} \cup SeqToSet(Tail(s))

\* The real alerts of a queue content, in order (the sentinel dropped).
RECURSIVE RealAlerts(_)
RealAlerts(q) ==
    IF q = <<>> THEN <<>>
    ELSE IF Head(q) = None THEN RealAlerts(Tail(q))
         ELSE <<Head(q)>> \o RealAlerts(Tail(q))

\* ------------------------------------------------------------------ state
VARIABLES
    proc,           \* "boot" | "running" | "exited0" | "killed"
    restarts,       \* restarts so far
    \* external store (survives restarts)
    durable,        \* redis list "alerts"
    subsAlerts,     \* redis set subscribers:alerts
    subsWeeks,      \* redis set subscribers:weeks
    stats,          \* redis hash "stats": chats that have a record
    settingsAlerts, \* redis hash settings, field "alerts": its value
    settingsWeeks,  \* redis hash settings, field "weeks": its value
    \* AlertsService
    queue,          \* asyncio.Queue content
    unfinished,     \* asyncio.Queue._unfinished_tasks
    alertsSD,       \* AlertsService._shutting_down
    webReq,         \* webhook request awaiting its body ("none" or a body)
    nextId,         \* alerts constructed so far (identity of the next one)
    \* WorkerService
    workerSD,       \* WorkerService._shutting_down
    wpc,            \* the worker task's suspension point
    wmode,          \* "main" loop or "drain" loop
    takenWith,      \* settings field "alerts" when the worker last took an item
    prevAlert,      \* AlertsService.previous_alert
    passedPrev,     \* previous_alert argument of the current _send_alert call
    delivered,      \* chats a send of the current fan-out has returned for
    \* subscribe_all middleware
    mwpc,           \* the middleware call's suspension point
    mwchat,         \* chat of the message it handles
    mwin,           \* result of sismember("subscribers:alerts")
    autosub,        \* chats the middleware has subscribed in this run
    walert,         \* the alert being processed
    wsnap,          \* chats of the smembers snapshot not yet iterated
    wchat,          \* chat of the current iteration
    wmig,           \* err.migrate_to_chat_id of the current iteration
    \* GracefulExitManager
    exiting,        \* _exiting
    exitFuture,     \* _exit_future resolved
    trackings,      \* _trackings
    mpc,            \* the coordinator's position
    cbIdx,          \* index of the running exit callback
    cbpc,           \* position of the running exit callback task
    saveBuf,        \* save_alerts_state's local list not yet pushed
    tstate,         \* webserver / weeks task: state
    weeksSD,        \* WeeksService._shutting_down
    wkpc,           \* the weeks task's suspension point
    weeksSeen,      \* week transitions the weeks task has seen in this run
    announced,      \* the transitions among them that were announced
    isoWeek,        \* the ISO week number of the current date
    yearWeeks,      \* the number of ISO weeks of the current year
    invertWeeks,    \* the value of the "invert_weeks" key
    weekAnswer,     \* what the last /week answer said, and when
    \* observation (history) variables
    enq,            \* alerts put on the queue in this run, in order
    fanned,         \* alerts whose fan-out started in this run, in order
    completed,      \* alerts whose fan-out ran to its end in this run
    attempts,       \* chats a delivery was attempted to in the current fan-out
    signals,        \* signals delivered in this run
    sentinelAt,     \* when the sentinel was put: Len(enq), worker running
    saveLog,        \* what save_alerts_state took from the queue in this run
    prevSave,       \* saveLog of the previous run
    loaded,         \* alerts load_alerts_state put on the queue in this run
    blocked,        \* chats that signalled 'forbidden' and were not re-subscribed
    backlog         \* real alerts in the queue when the worker task failed

storeVars == <<durable, subsAlerts, subsWeeks, stats, settingsAlerts,
              settingsWeeks>>
queueVars == <<queue, unfinished, alertsSD, webReq, nextId>>
workerVars == <<workerSD, wpc, wmode, takenWith, walert, wsnap, wchat, wmig>>
mgrVars == <<exiting, exitFuture, trackings, mpc, cbIdx, cbpc, saveBuf, tstate,
            weeksSD>>
histVars == <<enq, fanned, completed, attempts, signals, sentinelAt, saveLog,
             prevSave, loaded>>
obsVars == <<blocked, backlog>>
weekVars == <<wkpc, weeksSeen, announced>>
prevVars == <<prevAlert, passedPrev>>
mwVars == <<mwpc, mwchat, mwin, autosub>>
calVars == <<isoWeek, yearWeeks, invertWeeks, weekAnswer>>
vars == <<proc, restarts, storeVars, queueVars, workerVars, mgrVars, histVars,
          obsVars, weekVars, prevVars, delivered, mwVars, calVars>>

\* -------------------------------------------------------- asyncio.Queue
\* A queue that hands out its newest item first.
DequeueNewest(q) == [item |-> q[Len(q)], rest |-> SubSeq(q, 1, Len(q) - 1)]

\* Queue.get_nowait / what Queue.get does once an item is there: the oldest
\* item leaves the queue.
Dequeue(q) == [item |-> Head(q), rest |-> Tail(q)]

\* ------------------------------------------------------ WorkerService.run
\* The worker's code between two suspension points is computed by the
\* operators below; each yields the worker's next suspension point together
\* with the queue and the unfinished-task counter it leaves behind.
WRec(pc, mode, alert, q, unf) ==
    [pc |-> pc, mode |-> mode, alert |-> alert, q |-> q, unf |-> unf]

WStopped(q, unf) == WRec("stopped", "main", None, q, unf)

\* processing_done raised ValueError (task_done called too many times).
WFailed(q, unf) == WRec("failed", "main", None, q, unf)

\* Faulty drain loop: the sentinel is not told apart from an alert.
DrainLoopDelivers(q, unf) ==
    IF q = <<>> THEN WStopped(q, unf)
    ELSE WRec("settings", "drain", Dequeue(q).item, Dequeue(q).rest, unf)

\* The drain loop from its top: next_alert until QueueEmpty, the sentinel
\* skipped with `continue`.
RECURSIVE DrainLoop(_, _)
DrainLoop(q, unf) ==
    IF q = <<>> THEN WStopped(q, unf)
    ELSE IF Dequeue(q).item = None THEN DrainLoop(Dequeue(q).rest, unf)
    ELSE WRec("settings", "drain", Dequeue(q).item, Dequeue(q).rest, unf)

\* Faulty end of the main loop: the worker waits for an alert instead of
\* returning when the queue is empty.
AfterMainLoopWaits(q, unf) ==
    IF Len(q) < 1 THEN WRec("get", "main", None, q, unf) ELSE DrainLoop(q, unf)

\* After the main loop: `if alerts_service.qsize < 1: return`, else drain.
AfterMainLoop(q, unf) ==
    IF Len(q) < 1 THEN WStopped(q, unf) ELSE DrainLoop(q, unf)

\* The main loop's body once wait_alert has returned `item`.
GotItem(item, q, unf) ==
    IF item = None
    THEN IF unf = 0 THEN WFailed(q, unf) ELSE AfterMainLoop(q, unf - 1)
    ELSE WRec("settings", "main", item, q, unf)

\* The main loop from its top: the loop test, wait_alert, Queue.get (which
\* returns without suspending when the queue is not empty).
MainLoop(q, unf, wsd, asd) ==
    IF wsd THEN AfterMainLoop(q, unf)
    ELSE IF asd THEN GotItem(None, q, unf)
    ELSE IF q = <<>> THEN WRec("get", "main", None, q, unf)
    ELSE GotItem(Dequeue(q).item, Dequeue(q).rest, unf)

\* processing_done() at the end of an iteration, then the loop again.
ProcessingDone(mode, q, unf, wsd, asd) ==
    IF unf = 0 THEN WFailed(q, unf)
    ELSE IF mode = "main" THEN MainLoop(q, unf - 1, wsd, asd)
    ELSE DrainLoop(q, unf - 1)

\* previous_alert replaced at every dequeue, delivered or not.
PreviousAfterDequeue(prev, alert, fannedOut) == alert

\* AlertsService.previous_alert once the worker has dealt with an alert: the
\* most recently delivered alert, changed once per processed alert when its
\* fan-out begins; an alert the kill switch drops is not a delivered one.
PreviousAfter(prev, alert, fannedOut) == IF fannedOut THEN alert ELSE prev

\* Move the worker to the suspension point w, no fan-out in progress.
WorkerGoes(w) ==
    /\ wpc' = w.pc
    /\ wmode' = w.mode
    /\ takenWith' = settingsAlerts
    /\ walert' = w.alert
    /\ queue' = w.q
    /\ unfinished' = w.unf
    /\ wsnap' = {}
    /\ wchat' = NoChat
    /\ wmig' = NoChat

WorkerRunning == wpc \notin {"stopped", "failed", "cancelled"}

\* The step in which the worker task fails records what the queue holds.
NoteFailure ==
    backlog' = IF wpc # "failed" /\ wpc' = "failed" THEN RealAlerts(queue')
               ELSE backlog

\* Outcomes of one bot.send_* call, as the worker's handlers tell them apart.
SendOutcomes == {"ok", "migrate", "forbidden", "error"}

\* Queue.put_nowait(item): one more unfinished task.  A worker suspended in
\* Queue.get is woken by the put and resumes with the item before any timer
\* of the event loop can expire; otherwise the item joins the queue.
PutNowait(item) ==
    IF wpc = "get"
    THEN WorkerGoes(GotItem(Dequeue(Append(queue, item)).item,
                            Dequeue(Append(queue, item)).rest, unfinished + 1))
    ELSE /\ queue' = Append(queue, item)
         /\ unfinished' = unfinished + 1
         /\ UNCHANGED <<wpc, wmode, takenWith, walert, wsnap, wchat, wmig>>

\* What the redis hash "settings" can hold for a field: the two values the
\* /settings command writes, or nothing.
SettingValues == {"true", "false", "unset"}

\* Faulty check: everything but an explicit "false" switches the feature on.
check_settingsNotFalse(v) == v # "false"

\* check_settings(name): `(await redis.hget("settings", name)) == b"true"`.
check_settings(v) == v = "true"

\* check_settings("alerts") returns: fan out, or skip the alert.
WorkerCheckSettings ==
    /\ proc = "running" /\ wpc = "settings"
    /\ IF check_settings(settingsAlerts)
       THEN /\ wpc' = "smembers"
            /\ passedPrev' = prevAlert
            /\ UNCHANGED <<wmode, takenWith, walert, wsnap, wchat, wmig, queue,
                           unfinished>>
       ELSE /\ WorkerGoes(ProcessingDone(wmode, queue, unfinished, workerSD, alertsSD))
            /\ UNCHANGED passedPrev
    /\ prevAlert' = PreviousAfter(prevAlert, walert, check_settings(settingsAlerts))
    /\ UNCHANGED <<proc, restarts, storeVars, alertsSD, webReq, nextId, workerSD,
                   mgrVars, histVars, blocked, weekVars, delivered, mwVars, calVars>>
    /\ NoteFailure

\* The end of _send_alert's for loop: back in run(), processing_done().
FanOutEnds ==
    /\ WorkerGoes(ProcessingDone(wmode, queue, unfinished, workerSD, alertsSD))
    /\ completed' = completed \cup {walert}

\* The for loop takes the next chat of the snapshot (in any order), or ends.
NextChat(rest) ==
    IF rest = {}
    THEN FanOutEnds
    ELSE /\ \E c \in rest : wchat' = c
         /\ wsnap' = rest
         /\ wpc' = "send"
         /\ wmig' = NoChat
         /\ UNCHANGED <<wmode, takenWith, walert, queue, unfinished, completed>>

\* _send_alert: redis.smembers("subscribers:alerts") returns the snapshot.
WorkerSnapshot ==
    /\ proc = "running" /\ wpc = "smembers"
    /\ fanned' = Append(fanned, walert)
    /\ attempts' = <<>>
    /\ delivered' = {}
    /\ NextChat(subsAlerts)
    /\ UNCHANGED <<proc, restarts, storeVars, alertsSD, webReq, nextId, workerSD,
                   mgrVars, enq, signals, sentinelAt, saveLog, prevSave, loaded,
                   blocked, weekVars, prevVars, mwVars, calVars>>
    /\ NoteFailure

\* An exception leaves _send_alert and run(): the worker task has failed.
WorkerRaises ==
    /\ wpc' = "failed"
    /\ UNCHANGED <<wmode, takenWith, walert, wsnap, wchat, wmig>>

\* _send_alert_to_chat(chat_id, ...) returns or raises.
WorkerSend ==
    /\ proc = "running" /\ wpc = "send"
    /\ attempts' = Append(attempts, wchat)
    /\ \E o \in SendOutcomes :
          \/ /\ o = "ok"
             /\ wpc' = "sleep"
             /\ delivered' = delivered \cup {wchat}
             /\ UNCHANGED <<wmode, takenWith, walert, wsnap, wchat, wmig, blocked>>
          \/ /\ o = "migrate"
             /\ \E y \in Chats \ {wchat} : wmig' = y
             /\ wpc' = "migrate_chat"
             /\ UNCHANGED <<wmode, takenWith, walert, wsnap, wchat, blocked,
                            delivered, mwVars, calVars>>
          \/ /\ o = "forbidden"
             /\ wpc' = "forbidden_srem_alerts"
             /\ blocked' = blocked \cup {wchat}
             /\ UNCHANGED <<wmode, takenWith, walert, wsnap, wchat, wmig, delivered,
                            mwVars, calVars>>
          \/ /\ o = "error"
             /\ WorkerRaises
             /\ UNCHANGED <<blocked, delivered, mwVars, calVars>>
    /\ UNCHANGED <<proc, restarts, storeVars, queueVars, workerSD, mgrVars,
                   enq, fanned, completed, signals, sentinelAt, saveLog, prevSave,
                   loaded, weekVars, prevVars, mwVars, calVars>>
    /\ NoteFailure

\* A redis SREM that removes nothing.
SRemNothing(set, c) == set

\* redis SREM key member.
SRem(set, c) == set \ {c}

\* redis SADD key member.
SAdd(set, c) == set \cup {c}

\* stats.migrate_chat: hset(new, hget(old) or "{}"), hdel(old).
MigrateStats(st, old, new) == (st \cup {new}) \ {old}

\* except TelegramMigrateToChat: migrate_chat, srem, sadd, one retry.
WorkerMigrate ==
    /\ proc = "running"
    /\ \/ /\ wpc = "migrate_chat"
          /\ stats' = MigrateStats(stats, wchat, wmig)
          /\ wpc' = "migrate_srem"
          /\ UNCHANGED <<subsAlerts, attempts, blocked>>
       \/ /\ wpc = "migrate_srem"
          /\ subsAlerts' = SRem(subsAlerts, wchat)
          /\ wpc' = "migrate_sadd"
          /\ UNCHANGED <<stats, attempts, blocked>>
       \/ /\ wpc = "migrate_sadd"
          /\ subsAlerts' = SAdd(subsAlerts, wmig)
          /\ blocked' = blocked \ {wmig}
          /\ wpc' = "migrate_retry"
          /\ UNCHANGED <<stats, attempts>>
    /\ UNCHANGED <<proc, restarts, durable, subsWeeks, settingsAlerts, settingsWeeks, queueVars,
                   workerSD, wmode, takenWith, walert, wsnap, wchat, wmig, mgrVars,
                   enq, fanned, completed, signals, sentinelAt, saveLog, prevSave,
                   loaded, backlog, weekVars, prevVars, delivered, mwVars, calVars>>

\* The retry inside the except block: whatever it raises is not caught.
WorkerRetry ==
    /\ proc = "running" /\ wpc = "migrate_retry"
    /\ attempts' = Append(attempts, wmig)
    /\ \E o \in SendOutcomes :
          IF o = "ok"
          THEN /\ wpc' = "sleep"
               /\ delivered' = delivered \cup {wmig}
               /\ UNCHANGED <<wmode, takenWith, walert, wsnap, wchat, wmig>>
          ELSE WorkerRaises /\ UNCHANGED delivered
    /\ UNCHANGED <<proc, restarts, storeVars, queueVars, workerSD, mgrVars,
                   enq, fanned, completed, signals, sentinelAt, saveLog, prevSave,
                   loaded, blocked, weekVars, prevVars, mwVars, calVars>>
    /\ NoteFailure

\* except TelegramForbiddenError: srem from both sets, then update_stats,
\* whose get_chat_member either raises Forbidden (the record is deleted) or
\* lets another error escape.
WorkerForbidden ==
    /\ proc = "running"
    /\ \/ /\ wpc = "forbidden_srem_alerts"
          /\ subsAlerts' = SRem(subsAlerts, wchat)
          /\ wpc' = "forbidden_srem_weeks"
          /\ UNCHANGED <<subsWeeks, stats, wmode, takenWith, walert, wsnap, wchat, wmig>>
       \/ /\ wpc = "forbidden_srem_weeks"
          /\ subsWeeks' = SRem(subsWeeks, wchat)
          /\ wpc' = "update_stats"
          /\ UNCHANGED <<subsAlerts, stats, wmode, takenWith, walert, wsnap, wchat, wmig>>
       \/ /\ wpc = "update_stats"
          /\ \/ /\ stats' = stats \ {wchat}
                /\ wpc' = "sleep"
                /\ UNCHANGED <<wmode, takenWith, walert, wsnap, wchat, wmig>>
             \/ /\ WorkerRaises
                /\ UNCHANGED stats
          /\ UNCHANGED <<subsAlerts, subsWeeks>>
    /\ UNCHANGED <<proc, restarts, durable, settingsAlerts, settingsWeeks, queueVars,
                   workerSD, mgrVars, histVars, blocked, weekVars, prevVars,
                   delivered, mwVars, calVars>>
    /\ NoteFailure

\* asyncio.sleep(0.5) returns: the next chat, or the end of the fan-out.
WorkerSleep ==
    /\ proc = "running" /\ wpc = "sleep"
    /\ NextChat(wsnap \ {wchat})
    /\ UNCHANGED <<proc, restarts, storeVars, alertsSD, webReq, nextId, workerSD,
                   mgrVars, enq, fanned, attempts, signals, sentinelAt, saveLog,
                   prevSave, loaded, blocked, weekVars, prevVars, delivered, mwVars, calVars>>
    /\ NoteFailure

\* ------------------------------------------------ AlertsService (webhook)
\* Request bodies as _handle_webhook tells them apart: not JSON
\* (JSONDecodeError), JSON that is no object (Alert(**request_data) raises
\* TypeError), an object that fails validation, a valid alert.
BodyKinds == {"badjson", "notobject", "badschema", "ok"}

\* HTTP status of the answer; Pending while the handler has not answered.
Pending == 0
StatusOk == 200
StatusError == 400
StatusInternal == 500

NoRequest == [kind |-> "none", region_id |-> 0, status |-> Pending, queued |-> FALSE]

\* The request the webserver is handling, or has just answered.
Answer(req, st, q) == [req EXCEPT !.status = st, !.queued = q]

\* Faulty region tests: one that lets every region through, one that lets
\* through every region but the configured one.
RegionMatchesAny(r) == TRUE

RegionMatchesOther(r) == r # Region

\* `if model.region_id == self.region`.
RegionMatches(r) == r = Region

\* _handle_webhook up to `await request.json()`: while the service is
\* shutting down the request is answered 200 at once, its body unread.
WebhookReceive ==
    /\ proc = "running" /\ tstate["webserver"] = "run"
    /\ webReq = NoRequest /\ nextId <= MaxAlerts
    /\ nextId' = nextId + 1
    /\ \E k \in BodyKinds, r \in {Region, OtherRegion} :
          webReq' = [kind |-> k, region_id |-> r,
                     status |-> (IF alertsSD THEN StatusOk ELSE Pending),
                     queued |-> FALSE]
    /\ UNCHANGED <<proc, restarts, storeVars, queue, unfinished, alertsSD,
                   workerVars, mgrVars, histVars, obsVars, weekVars, prevVars,
                   delivered, mwVars, calVars>>

\* The answer the rest of _handle_webhook gives to a body of kind k: 400 from
\* the two except clauses, 200 at the end; the TypeError of a body that is no
\* object is not caught and aiohttp answers 500.
HandlerStatus(k) ==
    IF k \in {"badjson", "badschema"} THEN StatusError
    ELSE IF k = "notobject" THEN StatusInternal
    ELSE StatusOk

\* _handle_webhook after the body has arrived: decode, validate, filter by
\* region, put_nowait, answer.
WebhookHandle ==
    /\ proc = "running" /\ tstate["webserver"] \in {"run", "cancelling"}
    /\ webReq.kind # "none" /\ webReq.status = Pending
    /\ IF webReq.kind = "ok" /\ RegionMatches(webReq.region_id)
       THEN /\ PutNowait(Alert(nextId - 1, webReq.region_id))
            /\ enq' = Append(enq, Alert(nextId - 1, webReq.region_id))
            /\ webReq' = Answer(webReq, HandlerStatus(webReq.kind), TRUE)
       ELSE /\ webReq' = Answer(webReq, HandlerStatus(webReq.kind), FALSE)
            /\ UNCHANGED <<queue, unfinished, enq, wpc, wmode, takenWith, walert, wsnap, wchat,
                           wmig>>
    /\ UNCHANGED <<proc, restarts, storeVars, alertsSD, nextId, workerSD, mgrVars,
                   fanned, completed, attempts, signals, sentinelAt, saveLog,
                   prevSave, loaded, blocked, weekVars, prevVars, delivered, mwVars, calVars>>
    /\ NoteFailure

\* The answer has been sent; the connection is ready for the next request.
WebhookCloses ==
    /\ proc = "running"
    /\ webReq.status # Pending
    /\ webReq' = NoRequest
    /\ UNCHANGED <<proc, restarts, storeVars, queue, unfinished, alertsSD, nextId,
                   workerVars, mgrVars, histVars, obsVars, weekVars, prevVars,
                   delivered, mwVars, calVars>>

\* handlers/debug.py, /trigger ... push (airalertbot; naualertsbot has
\* DEBUG_PUSH_ALLOWED = False): trigger_alert(Alert(regionId=self.region)).
DebugTrigger ==
    /\ proc = "running" /\ tstate["webserver"] = "run"
    /\ nextId <= MaxAlerts
    /\ nextId' = nextId + 1
    /\ PutNowait(Alert(nextId, Region))
    /\ enq' = Append(enq, Alert(nextId, Region))
    /\ UNCHANGED <<proc, restarts, storeVars, alertsSD, webReq, workerSD, mgrVars,
                   fanned, completed, attempts, signals, sentinelAt, saveLog,
                   prevSave, loaded, blocked, weekVars, prevVars, delivered, mwVars, calVars>>
    /\ NoteFailure

\* ---------------------------------------------------- GracefulExitManager
Tasks == {"worker", "webserver", "weeks"}

\* main(): the tasks tracked with cancel_on_exit left at its default.
CancelOnExit == {"webserver", "weeks"}

\* main(): the exit callbacks in registration order.
ExitCbs == <<"app.shutdown", "weeks.shutdown", "worker.shutdown",
             "alerts.shutdown", "save_alerts_state">>

\* asyncio.Task.done() of a tracked task.
TaskDone(t) ==
    IF t = "worker" THEN ~WorkerRunning
    ELSE tstate[t] \in {"failed", "cancelled", "done"}

\* task.exception() is set.
TaskFailed(t) ==
    IF t = "worker" THEN wpc = "failed" ELSE tstate[t] = "failed"

\* trigger() without the test of _exiting: every signal asks for a graceful
\* exit.
TriggerAlwaysGraceful ==
    /\ proc = "running" /\ signals < MaxSignals
    /\ signals' = signals + 1
    /\ exiting' = TRUE
    /\ exitFuture' = TRUE
    /\ UNCHANGED <<proc, restarts, storeVars, queueVars, workerVars, trackings, mpc,
                   cbIdx, cbpc, saveBuf, tstate, weeksSD, enq, fanned, completed,
                   attempts, sentinelAt, saveLog, prevSave, loaded, obsVars, weekVars,
                   prevVars, delivered, mwVars, calVars>>

\* trigger(): the signal handler.
Trigger ==
    /\ proc = "running" /\ signals < MaxSignals
    /\ signals' = signals + 1
    /\ IF exiting
       THEN /\ proc' = "killed"
            /\ UNCHANGED <<exiting, exitFuture>>
       ELSE /\ exiting' = TRUE
            /\ exitFuture' = TRUE
            /\ UNCHANGED proc
    /\ UNCHANGED <<restarts, storeVars, queueVars, workerVars, trackings, mpc, cbIdx,
                   cbpc, saveBuf, tstate, weeksSD, enq, fanned, completed, attempts,
                   sentinelAt, saveLog, prevSave, loaded, obsVars, weekVars, prevVars,
                   delivered, mwVars, calVars>>

\* _exit() begins: _call_exit_callbacks creates the first callback's task.
EnterExit ==
    /\ mpc' = "callbacks"
    /\ cbIdx' = 1
    /\ cbpc' = "start"

\* wait(): asyncio.wait returned with the exit future done.
WaitSeesExitFuture ==
    /\ proc = "running" /\ mpc = "wait" /\ exitFuture
    /\ EnterExit
    /\ UNCHANGED <<proc, restarts, storeVars, queueVars, workerVars, exiting,
                   exitFuture, trackings, saveBuf, tstate, weeksSD, histVars, obsVars,
                   weekVars, prevVars, delivered, mwVars, calVars>>

\* wait(): asyncio.wait returned with a finished task only; the task is
\* removed and, as it raised and exit_on_failure is set, _exit() is awaited.
WaitSeesFailure ==
    /\ proc = "running" /\ mpc = "wait" /\ ~exitFuture
    /\ \E t \in trackings :
          /\ TaskDone(t) /\ TaskFailed(t)
          /\ trackings' = trackings \ {t}
    /\ EnterExit
    /\ UNCHANGED <<proc, restarts, storeVars, queueVars, workerVars, exiting,
                   exitFuture, saveBuf, tstate, weeksSD, histVars, obsVars, weekVars,
                   prevVars, delivered, mwVars, calVars>>

CallbackIs(name) == proc = "running" /\ mpc = "callbacks" /\ ExitCbs[cbIdx] = name

\* app.shutdown (aiohttp): starts, and later returns.
CbAppShutdown ==
    /\ CallbackIs("app.shutdown")
    /\ \/ cbpc = "start" /\ cbpc' = "run"
       \/ cbpc = "run" /\ cbpc' = "done"
    /\ UNCHANGED <<proc, restarts, storeVars, queueVars, workerVars, exiting,
                   exitFuture, trackings, mpc, cbIdx, saveBuf, tstate, weeksSD,
                   histVars, obsVars, weekVars, prevVars, delivered, mwVars, calVars>>

\* WeeksService.shutdown.
CbWeeksShutdown ==
    /\ CallbackIs("weeks.shutdown") /\ cbpc = "start"
    /\ weeksSD' = TRUE
    /\ cbpc' = "done"
    /\ UNCHANGED <<proc, restarts, storeVars, queueVars, workerVars, exiting,
                   exitFuture, trackings, mpc, cbIdx, saveBuf, tstate, histVars,
                   obsVars, weekVars, prevVars, delivered, mwVars, calVars>>

\* WorkerService.shutdown.
CbWorkerShutdown ==
    /\ CallbackIs("worker.shutdown") /\ cbpc = "start"
    /\ workerSD' = TRUE
    /\ cbpc' = "done"
    /\ UNCHANGED <<proc, restarts, storeVars, queueVars, wpc, wmode, takenWith, walert, wsnap,
                   wchat, wmig, exiting, exitFuture, trackings, mpc, cbIdx, saveBuf,
                   tstate, weeksSD, histVars, obsVars, weekVars, prevVars, delivered,
                   mwVars, calVars>>

\* AlertsService.shutdown up to its first await: the flag and the sentinel.
CbAlertsShutdown ==
    /\ CallbackIs("alerts.shutdown") /\ cbpc = "start"
    /\ alertsSD' = TRUE
    /\ PutNowait(None)
    /\ sentinelAt' = [pos |-> Len(enq), running |-> WorkerRunning]
    /\ cbpc' = "network"
    /\ UNCHANGED <<proc, restarts, storeVars, webReq, nextId, workerSD, exiting,
                   exitFuture, trackings, mpc, cbIdx, saveBuf, tstate, weeksSD,
                   enq, fanned, completed, attempts, signals, saveLog, prevSave,
                   loaded, blocked, weekVars, prevVars, delivered, mwVars, calVars>>
    /\ NoteFailure

\* AlertsService.shutdown resumes: _remove_webhook and session.close return
\* (then queue.join() is awaited, which returns at once when nothing is
\* unfinished) or raise (the callback task ends); or the join it is suspended
\* in returns because the counter of unfinished tasks has reached zero.
CbAlertsResumes ==
    /\ CallbackIs("alerts.shutdown")
    /\ \/ /\ cbpc = "network"
          /\ \/ cbpc' = (IF unfinished = 0 THEN "done" ELSE "join")
             \/ cbpc' = "done"
       \/ /\ cbpc = "join"
          /\ unfinished = 0
          /\ cbpc' = "done"
    /\ UNCHANGED <<proc, restarts, storeVars, queueVars, workerVars, exiting,
                   exitFuture, trackings, mpc, cbIdx, saveBuf, tstate, weeksSD,
                   histVars, obsVars, weekVars, prevVars, delivered, mwVars, calVars>>

\* save_alerts_state up to its first await: the qsize test and the loop that
\* empties the queue with next_alert, keeping what is not the sentinel.
CbSaveDrain ==
    /\ CallbackIs("save_alerts_state") /\ cbpc = "start"
    /\ IF Len(queue) = 0
       THEN /\ cbpc' = "done"
            /\ UNCHANGED <<queue, saveBuf, saveLog>>
       ELSE /\ queue' = <<>>
            /\ saveBuf' = RealAlerts(queue)
            /\ saveLog' = [took |-> RealAlerts(queue),
                           finished |-> RealAlerts(queue) = <<>>]
            /\ cbpc' = (IF RealAlerts(queue) = <<>> THEN "done" ELSE "push")
    /\ UNCHANGED <<proc, restarts, storeVars, unfinished, alertsSD, webReq, nextId,
                   workerVars, exiting, exitFuture, trackings, mpc, cbIdx, tstate,
                   weeksSD, enq, fanned, completed, attempts, signals, sentinelAt,
                   prevSave, loaded, obsVars, weekVars, prevVars, delivered, mwVars, calVars>>

\* save_alerts_state: one `await redis.lpush("alerts", ...)` returns.
CbSavePush ==
    /\ CallbackIs("save_alerts_state") /\ cbpc = "push"
    /\ durable' = LPush(durable, model_dump_json(Head(saveBuf)))
    /\ saveBuf' = Tail(saveBuf)
    /\ cbpc' = (IF Tail(saveBuf) = <<>> THEN "done" ELSE "push")
    /\ saveLog' = [saveLog EXCEPT !.finished = (Tail(saveBuf) = <<>>)]
    /\ UNCHANGED <<proc, restarts, subsAlerts, subsWeeks, stats, settingsAlerts, settingsWeeks,
                   queueVars, workerVars, exiting, exitFuture, trackings, mpc, cbIdx,
                   tstate, weeksSD, enq, fanned, completed, attempts, signals,
                   sentinelAt, prevSave, loaded, obsVars, weekVars, prevVars,
                   delivered, mwVars, calVars>>

\* An await inside app.shutdown or save_alerts_state raises (the web
\* application's cleanup, `redis.lpush`): the callback's task ends with the
\* exception, which asyncio.wait does not retrieve.
CallbackRaises ==
    /\ proc = "running" /\ mpc = "callbacks"
    /\ cbpc \in {"run", "push"}
    /\ cbpc' = "done"
    /\ UNCHANGED <<proc, restarts, storeVars, queueVars, workerVars, exiting,
                   exitFuture, trackings, mpc, cbIdx, saveBuf, tstate, weeksSD,
                   histVars, obsVars, weekVars, prevVars, delivered, mwVars, calVars>>

\* _call_exit_callbacks goes on: the next callback's task, or _wait_tasks.
NextCallback ==
    /\ saveBuf' = <<>>
    /\ IF cbIdx < Len(ExitCbs)
       THEN /\ cbIdx' = cbIdx + 1
            /\ cbpc' = "start"
            /\ mpc' = mpc
       ELSE /\ cbIdx' = 0
            /\ cbpc' = "none"
            /\ mpc' = "cancel_tasks"

\* asyncio.wait([task], timeout=CB_WAIT_TIMEOUT) returns the task as done.
CallbackDone ==
    /\ proc = "running" /\ mpc = "callbacks" /\ cbpc = "done"
    /\ NextCallback
    /\ UNCHANGED <<proc, restarts, storeVars, queueVars, workerVars, exiting,
                   exitFuture, trackings, tstate, weeksSD, histVars, obsVars, weekVars,
                   prevVars, delivered, mwVars, calVars>>

\* Faulty coordinator: the timeout of a callback is re-raised out of
\* _call_exit_callbacks, so _exit goes straight to releasing the resources.
CallbackTimeoutAborts ==
    /\ proc = "running" /\ mpc = "callbacks"
    /\ cbpc \in {"run", "network", "join", "push"}
    /\ saveBuf' = <<>> /\ cbIdx' = 0 /\ cbpc' = "none" /\ mpc' = "release"
    /\ UNCHANGED <<proc, restarts, storeVars, queueVars, workerVars, exiting,
                   exitFuture, trackings, tstate, weeksSD, histVars, obsVars, weekVars,
                   prevVars, delivered, mwVars, calVars>>

\* The callback's task is still suspended when CB_WAIT_TIMEOUT expires: it is
\* cancelled, and ends at the await it is suspended in.
CallbackTimeout ==
    /\ proc = "running" /\ mpc = "callbacks"
    /\ cbpc \in {"run", "network", "join", "push"}
    /\ NextCallback
    /\ UNCHANGED <<proc, restarts, storeVars, queueVars, workerVars, exiting,
                   exitFuture, trackings, tstate, weeksSD, histVars, obsVars, weekVars,
                   prevVars, delivered, mwVars, calVars>>

\* task.cancel() on the tasks of ts that are not done; the worker does not
\* catch CancelledError, so it ends at the await it is suspended in.
CancelAll(ts) ==
    /\ tstate' = [t \in DOMAIN tstate |->
                    IF t \in ts /\ tstate[t] = "run" THEN "cancelling" ELSE tstate[t]]
    /\ IF "worker" \in ts /\ WorkerRunning
       THEN wpc' = "cancelled"
       ELSE wpc' = wpc

\* Faulty _wait_tasks: every tracked task is cancelled at once, the worker
\* included.
CancelTasksAll ==
    /\ proc = "running" /\ mpc = "cancel_tasks"
    /\ CancelAll(Tasks)
    /\ mpc' = "wait_tasks"
    /\ UNCHANGED <<proc, restarts, storeVars, queueVars, workerSD, wmode, takenWith, walert,
                   wsnap, wchat, wmig, exiting, exitFuture, trackings, cbIdx, cbpc,
                   saveBuf, weeksSD, histVars, obsVars, weekVars, prevVars,
                   delivered, mwVars, calVars>>

\* _wait_tasks: cancel the cancel_on_exit tasks, then wait for all tracked;
\* asyncio.wait raises ValueError for an empty list before it suspends, the
\* exception leaves _exit, wait() and main(), and the interpreter ends with
\* exit code 1.
CancelTasks ==
    /\ proc = "running" /\ mpc = "cancel_tasks"
    /\ CancelAll(CancelOnExit)
    /\ IF trackings = {}
       THEN proc' = "exited1" /\ mpc' = mpc
       ELSE proc' = proc /\ mpc' = "wait_tasks"
    /\ UNCHANGED <<restarts, storeVars, queueVars, workerSD, wmode, takenWith, walert,
                   wsnap, wchat, wmig, exiting, exitFuture, trackings, cbIdx, cbpc,
                   saveBuf, weeksSD, histVars, obsVars, weekVars, prevVars,
                   delivered, mwVars, calVars>>

\* asyncio.wait(_trackings, ALL_COMPLETED, timeout) with nothing pending.
WaitTasksDone ==
    /\ proc = "running" /\ mpc \in {"wait_tasks", "wait_cancelled"}
    /\ \A t \in trackings : TaskDone(t)
    /\ mpc' = "release"
    /\ UNCHANGED <<proc, restarts, storeVars, queueVars, workerVars, exiting,
                   exitFuture, trackings, cbIdx, cbpc, saveBuf, tstate, weeksSD,
                   histVars, obsVars, weekVars, prevVars, delivered, mwVars, calVars>>

\* TASK_WAIT_TIMEOUT expires with tasks pending: all pending are cancelled
\* and waited for once more.
WaitTasksTimeout ==
    /\ proc = "running" /\ mpc = "wait_tasks"
    /\ \E t \in trackings : ~TaskDone(t)
    /\ CancelAll(trackings)
    /\ mpc' = "wait_cancelled"
    /\ UNCHANGED <<proc, restarts, storeVars, queueVars, workerSD, wmode, takenWith, walert,
                   wsnap, wchat, wmig, exiting, exitFuture, trackings, cbIdx, cbpc,
                   saveBuf, weeksSD, histVars, obsVars, weekVars, prevVars,
                   delivered, mwVars, calVars>>

\* The second TASK_WAIT_TIMEOUT expires with tasks still pending.
WaitCancelledTimeout ==
    /\ proc = "running" /\ mpc = "wait_cancelled"
    /\ \E t \in trackings : ~TaskDone(t)
    /\ mpc' = "release"
    /\ UNCHANGED <<proc, restarts, storeVars, queueVars, workerVars, exiting,
                   exitFuture, trackings, cbIdx, cbpc, saveBuf, tstate, weeksSD,
                   histVars, obsVars, weekVars, prevVars, delivered, mwVars, calVars>>

\* Faulty _exit: it returns to the loop of wait() instead of raising
\* SystemExit.
ReleaseReturns ==
    /\ proc = "running" /\ mpc = "release"
    /\ mpc' = "wait"
    /\ UNCHANGED <<proc, restarts, storeVars, queueVars, workerVars, exiting,
                   exitFuture, trackings, cbIdx, cbpc, saveBuf, tstate, weeksSD,
                   histVars, obsVars, weekVars, prevVars, delivered, mwVars, calVars>>

\* _exit: shutdown_resources(), then sys.exit(0): SystemExit leaves the
\* main task and asyncio.run closes the loop, first cancelling every task
\* that is not done.
Release ==
    /\ proc = "running" /\ mpc = "release"
    /\ CancelAll(Tasks)
    /\ mpc' = "runner_close"
    /\ UNCHANGED <<proc, restarts, storeVars, queueVars, workerSD, wmode, takenWith, walert,
                   wsnap, wchat, wmig, exiting, exitFuture, trackings, cbIdx, cbpc,
                   saveBuf, weeksSD, histVars, obsVars, weekVars, prevVars,
                   delivered, mwVars, calVars>>

\* Faulty _exit: sys.exit(0) before the resources are shut down.
ProcessEndsEarly ==
    /\ proc = "running" /\ mpc = "release"
    /\ proc' = "exited0"
    /\ UNCHANGED <<restarts, storeVars, queueVars, workerVars, mgrVars, histVars,
                   obsVars, weekVars, prevVars, delivered, mwVars, calVars>>

\* asyncio.run: the cancelled tasks have all finished; the process ends with
\* the exit code of sys.exit(0).
ProcessEnds ==
    /\ proc = "running" /\ mpc = "runner_close"
    /\ \A t \in Tasks : TaskDone(t)
    /\ proc' = "exited0"
    /\ UNCHANGED <<restarts, storeVars, queueVars, workerVars, mgrVars, histVars,
                   obsVars, weekVars, prevVars, delivered, mwVars, calVars>>

\* ------------------------------------------------- the other tracked tasks
\* The webserver or the weeks task raises.
TaskFails ==
    /\ proc = "running"
    /\ \E t \in CancelOnExit :
          /\ tstate[t] = "run"
          /\ tstate' = [tstate EXCEPT ![t] = "failed"]
          /\ webReq' = (IF t = "webserver" THEN NoRequest ELSE webReq)
    /\ UNCHANGED <<proc, restarts, storeVars, queue, unfinished, alertsSD, nextId,
                   workerVars, exiting, exitFuture, trackings, mpc, cbIdx, cbpc,
                   saveBuf, weeksSD, histVars, obsVars, weekVars, prevVars,
                   delivered, mwVars, calVars>>

\* A cancelled task ends (web._run_app after its cleanup, weeks at its sleep).
TaskCancelled ==
    /\ proc = "running"
    /\ \E t \in CancelOnExit :
          /\ tstate[t] = "cancelling"
          /\ tstate' = [tstate EXCEPT ![t] = "cancelled"]
          /\ webReq' = (IF t = "webserver" THEN NoRequest ELSE webReq)
    /\ UNCHANGED <<proc, restarts, storeVars, queue, unfinished, alertsSD, nextId,
                   workerVars, exiting, exitFuture, trackings, mpc, cbIdx, cbpc,
                   saveBuf, weeksSD, histVars, obsVars, weekVars, prevVars,
                   delivered, mwVars, calVars>>

\* WeeksService.run leaves its loop: `while not self._shutting_down`.
WeeksReturns ==
    /\ proc = "running" /\ tstate["weeks"] = "run" /\ wkpc = "sleep" /\ weeksSD
    /\ tstate' = [tstate EXCEPT !["weeks"] = "done"]
    /\ UNCHANGED <<proc, restarts, storeVars, queueVars, workerVars, exiting,
                   exitFuture, trackings, mpc, cbIdx, cbpc, saveBuf, weeksSD,
                   histVars, obsVars, weekVars, prevVars, delivered, mwVars, calVars>>

\* ------------------------------------------------------- WeeksService.run
\* Week transitions the weeks task can see in one run.
MaxWeeks == 2

\* Faulty loop: the week number is not compared with last_week_number, so
\* an iteration handles the week it has already handled.
WeeksNewWeekAgain ==
    /\ proc = "running" /\ tstate["weeks"] = "run"
    /\ wkpc = "sleep" /\ ~weeksSD
    /\ \E d \in {0, 1} :
          /\ weeksSeen + d \in 1..MaxWeeks
          /\ weeksSeen' = weeksSeen + d
    /\ wkpc' = "settings"
    /\ UNCHANGED <<proc, restarts, storeVars, queueVars, workerVars, mgrVars,
                   histVars, obsVars, announced, prevVars, delivered, mwVars, calVars>>

\* `await asyncio.sleep(1)` returns, the loop test passes and the ISO week
\* number differs from last_week_number: check_settings("weeks") is awaited.
WeeksNewWeek ==
    /\ proc = "running" /\ tstate["weeks"] = "run"
    /\ wkpc = "sleep" /\ ~weeksSD /\ weeksSeen < MaxWeeks
    /\ weeksSeen' = weeksSeen + 1
    /\ wkpc' = "settings"
    /\ UNCHANGED <<proc, restarts, storeVars, queueVars, workerVars, mgrVars,
                   histVars, obsVars, announced, prevVars, delivered, mwVars, calVars>>

\* check_settings("weeks") returns: get_week_number and _send_week are
\* awaited, or the transition is only logged; last_week_number is updated
\* either way.
WeeksCheckSettings ==
    /\ proc = "running" /\ tstate["weeks"] = "run" /\ wkpc = "settings"
    /\ IF check_settings(settingsWeeks)
       THEN /\ wkpc' = "send_week"
            /\ announced' = announced \cup {weeksSeen}
       ELSE /\ wkpc' = "sleep"
            /\ UNCHANGED announced
    /\ UNCHANGED <<proc, restarts, storeVars, queueVars, workerVars, mgrVars,
                   histVars, obsVars, weeksSeen, prevVars, delivered, mwVars, calVars>>

\* _send_week returns: the announcement went to the subscribers; the task
\* sleeps again.
WeeksSent ==
    /\ proc = "running" /\ tstate["weeks"] = "run" /\ wkpc = "send_week"
    /\ wkpc' = "sleep"
    /\ UNCHANGED <<proc, restarts, storeVars, queueVars, workerVars, mgrVars,
                   histVars, obsVars, weeksSeen, announced, prevVars, delivered, mwVars, calVars>>

\* /settings enable <name> and /settings disable <name>, sent by an admin.
SettingsWrite ==
    /\ proc = "running"
    /\ \E v \in {"true", "false"} :
          \/ settingsAlerts' = v /\ UNCHANGED settingsWeeks
          \/ settingsWeeks' = v /\ UNCHANGED settingsAlerts
    /\ UNCHANGED <<proc, restarts, durable, subsAlerts, subsWeeks, stats,
                   queueVars, workerVars, mgrVars, histVars, obsVars, weekVars,
                   prevVars, delivered, mwVars, calVars>>

WeeksNext == WeeksNewWeek \/ WeeksCheckSettings \/ WeeksSent

\* ---------------------------------------------------------- study weeks
ShortYear == 52
LongYear == 53

\* redis.get of a key that was never set.
NoValue == "None"

NoAnswer == [week |-> 0, value |-> NoValue, number |-> 0, next |-> 0]

\* `1 * invert`: a bool as an int.
BoolInt(b) == IF b THEN 1 ELSE 0

\* get_studying_week_number(date, invert), date given by its ISO week.
get_studying_week_number(week_number, invert) ==
    ((week_number + 1 * BoolInt(invert)) % 2) + 1

\* WeekNumber.invert.
WeekNumberInvert(n) == IF n = 1 THEN 2 ELSE 1

\* int() of a stored value, and the value redis stores for an int.
StrInt(v) == IF v = "1" THEN 1 ELSE 0

IntStr(n) == IF n = 1 THEN "1" ELSE "0"

\* How get_week_number and toggle_invert read the "invert_weeks" key:
\* False when it is unset, bool(int(value)) otherwise.
InvertFlag(v) == IF v = NoValue THEN FALSE ELSE StrInt(v) # 0

\* WeeksService.get_week_number for the current date.
get_week_number == get_studying_week_number(isoWeek, InvertFlag(invertWeeks))

\* The week after ISO week w of a year of n weeks.
WeekAfter(w, n) == IF w = n THEN 1 ELSE w + 1

\* The calendar, the key and the /week handler before anything has happened.
CalendarAtRest ==
    /\ isoWeek = 1 /\ yearWeeks = ShortYear
    /\ invertWeeks = NoValue /\ weekAnswer = NoAnswer

\* Monday comes: the ISO week number changes; after the last week of the
\* year a new year begins (two years of 53 weeks never follow each other).
MondayComes ==
    /\ isoWeek' = WeekAfter(isoWeek, yearWeeks)
    /\ IF isoWeek = yearWeeks
         THEN yearWeeks' \in IF yearWeeks = LongYear
                               THEN {ShortYear}
                               ELSE {ShortYear, LongYear}
         ELSE yearWeeks' = yearWeeks
    /\ UNCHANGED <<proc, restarts, storeVars, queueVars, workerVars, mgrVars,
                   histVars, obsVars, weekVars, prevVars, delivered, mwVars,
                   invertWeeks, weekAnswer>>

\* The /week handler answers with the current study week and, at the
\* weekend, with week_number.invert() as the week that begins on Monday.
GetWeek ==
    /\ proc = "running"
    /\ weekAnswer' = [week |-> isoWeek, value |-> invertWeeks,
                      number |-> get_week_number,
                      next |-> WeekNumberInvert(get_week_number)]
    /\ UNCHANGED <<proc, restarts, storeVars, queueVars, workerVars, mgrVars,
                   histVars, obsVars, weekVars, prevVars, delivered, mwVars,
                   isoWeek, yearWeeks, invertWeeks>>

\* The /invert_weeks handler of an admin: toggle_invert stores
\* int(not invert).
InvertWeeks ==
    /\ proc = "running"
    /\ invertWeeks' = IntStr(BoolInt(~InvertFlag(invertWeeks)))
    /\ UNCHANGED <<proc, restarts, storeVars, queueVars, workerVars, mgrVars,
                   histVars, obsVars, weekVars, prevVars, delivered, mwVars,
                   isoWeek, yearWeeks, weekAnswer>>

\* ------------------------------------------------------- process lifecycle
NoSentinel == [pos |-> 0 - 1, running |-> FALSE]

NoSave == [took |-> <<>>, finished |-> FALSE]

\* The in-memory state of a process that has not started yet.
FreshProcess ==
    /\ queue = <<>> /\ unfinished = 0 /\ alertsSD = FALSE /\ webReq = NoRequest
    /\ workerSD = FALSE /\ wpc = "start" /\ wmode = "main" /\ walert = None
    /\ takenWith = "unset" /\ prevAlert = None /\ passedPrev = None
    /\ delivered = {}
    /\ mwpc = "idle" /\ mwchat = NoChat /\ mwin = FALSE /\ autosub = {}
    /\ wsnap = {} /\ wchat = NoChat /\ wmig = NoChat
    /\ exiting = FALSE /\ exitFuture = FALSE /\ trackings = {}
    /\ mpc = "boot" /\ cbIdx = 0 /\ cbpc = "none" /\ saveBuf = <<>>
    /\ tstate = [t \in CancelOnExit |-> "run"] /\ weeksSD = FALSE
    /\ enq = <<>> /\ fanned = <<>> /\ completed = {} /\ attempts = <<>>
    /\ signals = 0 /\ sentinelAt = NoSentinel /\ saveLog = NoSave /\ loaded = <<>>
    /\ blocked = {} /\ backlog = <<>>
    /\ wkpc = "sleep" /\ weeksSeen = 0 /\ announced = {}

\* A new process: every in-memory variable as FreshProcess has it.
StartFresh ==
    /\ queue' = <<>> /\ unfinished' = 0 /\ alertsSD' = FALSE /\ webReq' = NoRequest
    /\ workerSD' = FALSE /\ wpc' = "start" /\ wmode' = "main" /\ walert' = None
    /\ takenWith' = "unset" /\ prevAlert' = None /\ passedPrev' = None
    /\ delivered' = {}
    /\ mwpc' = "idle" /\ mwchat' = NoChat /\ mwin' = FALSE /\ autosub' = {}
    /\ wsnap' = {} /\ wchat' = NoChat /\ wmig' = NoChat
    /\ exiting' = FALSE /\ exitFuture' = FALSE /\ trackings' = {}
    /\ mpc' = "boot" /\ cbIdx' = 0 /\ cbpc' = "none" /\ saveBuf' = <<>>
    /\ tstate' = [t \in CancelOnExit |-> "run"] /\ weeksSD' = FALSE
    /\ enq' = <<>> /\ fanned' = <<>> /\ completed' = {} /\ attempts' = <<>>
    /\ signals' = 0 /\ sentinelAt' = NoSentinel /\ saveLog' = NoSave /\ loaded' = <<>>
    /\ blocked' = {} /\ backlog' = <<>>
    /\ wkpc' = "sleep" /\ weeksSeen' = 0 /\ announced' = {}

\* load_alerts_state: lrange, trigger_alert for each record that validates,
\* delete.  Then main() creates and tracks the tasks and awaits wait(), and
\* the worker task runs up to its first suspension.
Boot ==
    /\ proc = "boot"
    /\ proc' = "running"
    /\ WorkerGoes(MainLoop(LoadedAlerts(LRangeAll(durable)),
                           Len(LoadedAlerts(LRangeAll(durable))), workerSD, alertsSD))
    /\ enq' = LoadedAlerts(LRangeAll(durable))
    /\ loaded' = LoadedAlerts(LRangeAll(durable))
    /\ durable' = <<>>
    /\ trackings' = Tasks
    /\ mpc' = "wait"
    /\ UNCHANGED <<restarts, subsAlerts, subsWeeks, stats, settingsAlerts, settingsWeeks, alertsSD,
                   webReq, nextId, workerSD, exiting, exitFuture, cbIdx, cbpc,
                   saveBuf, tstate, weeksSD, fanned, completed, attempts, signals,
                   sentinelAt, saveLog, prevSave, blocked, weekVars, prevVars,
                   delivered, mwVars, calVars>>
    /\ NoteFailure

\* The supervisor starts the service again after the process has ended.
Restart ==
    /\ proc \in {"exited0", "killed"} /\ restarts < MaxRestarts
    /\ restarts' = restarts + 1
    /\ proc' = "boot"
    /\ prevSave' = saveLog
    /\ StartFresh
    /\ UNCHANGED <<storeVars, nextId, calVars>>

\* A record found in the durable list at the very first start, written with
\* the alias keys.
InitialRecord(i) == [form |-> "alias", alert |-> Alert(0 - i, Region)]

Init ==
    /\ CalendarAtRest
    /\ proc = "boot" /\ restarts = 0
    /\ durable \in {<<>>, <<InitialRecord(1)>>}
    /\ subsAlerts = {1}
    /\ subsWeeks = subsAlerts
    /\ stats = subsAlerts
    /\ settingsAlerts \in {"true", "false"}
    /\ settingsWeeks = "true"
    /\ nextId = 1
    /\ prevSave = NoSave
    /\ FreshProcess

WorkerNext ==
    \/ WorkerCheckSettings \/ WorkerSnapshot
    \/ WorkerSend \/ WorkerMigrate \/ WorkerRetry \/ WorkerForbidden \/ WorkerSleep

ManagerNext ==
    \/ Trigger \/ WaitSeesExitFuture \/ WaitSeesFailure
    \/ CbAppShutdown \/ CbWeeksShutdown \/ CbWorkerShutdown
    \/ CbAlertsShutdown \/ CbAlertsResumes
    \/ CbSaveDrain \/ CbSavePush \/ CallbackRaises
    \/ CallbackDone \/ CallbackTimeout
    \/ CancelTasks \/ WaitTasksDone \/ WaitTasksTimeout \/ WaitCancelledTimeout
    \/ Release \/ ProcessEnds
    \/ TaskCancelled \/ WeeksReturns

\* One run of the process.
Next ==
    \/ Boot
    \/ WebhookReceive \/ WebhookHandle \/ WebhookCloses
    \/ WorkerNext
    \/ ManagerNext
    \/ TaskFails

Spec == Init /\ [][Next]_vars

\* Two alerts wait in the durable list; the process runs, is shut down and is
\* started again.
InitRestart ==
    /\ CalendarAtRest
    /\ proc = "boot" /\ restarts = 0
    /\ durable = <<InitialRecord(1), InitialRecord(2)>>
    /\ subsAlerts = {1}
    /\ subsWeeks = subsAlerts
    /\ stats = subsAlerts
    /\ settingsAlerts = "true"
    /\ settingsWeeks = "true"
    /\ nextId = 1
    /\ prevSave = NoSave
    /\ FreshProcess

NextRestart ==
    \/ Boot \/ Restart
    \/ WorkerNext
    \/ ManagerNext

SpecRestart == InitRestart /\ [][NextRestart]_vars

\* The worker alone: two alerts replayed from the durable list are fanned out
\* to every subscriber set over Chats, with every delivery outcome.
InitFan ==
    /\ CalendarAtRest
    /\ proc = "boot" /\ restarts = 0
    /\ durable = <<InitialRecord(1), InitialRecord(2)>>
    /\ subsAlerts \in SUBSET Chats
    /\ subsWeeks \in {{}, subsAlerts}
    /\ stats = subsAlerts
    /\ settingsAlerts \in {"true", "false"}
    /\ settingsWeeks = "true"
    /\ nextId = 1
    /\ prevSave = NoSave
    /\ FreshProcess

NextFan == Boot \/ WorkerNext

SpecFan == InitFan /\ [][NextFan]_vars

\* The intake alone: alert delivery is switched off in the settings, so the
\* worker only takes the alerts from the queue; alerts come from the webhook
\* and from the /trigger command, and the process is shut down and started
\* again.
InitWeb ==
    /\ CalendarAtRest
    /\ proc = "boot" /\ restarts = 0
    /\ durable \in {<<>>, <<InitialRecord(1)>>}
    /\ subsAlerts = {1}
    /\ subsWeeks = subsAlerts
    /\ stats = subsAlerts
    /\ settingsAlerts = "false"
    /\ settingsWeeks = "true"
    /\ nextId = 1
    /\ prevSave = NoSave
    /\ FreshProcess

NextWeb ==
    \/ Boot \/ Restart
    \/ WebhookReceive \/ WebhookHandle \/ WebhookCloses \/ DebugTrigger
    \/ WorkerCheckSettings
    \/ ManagerNext
    \/ TaskFails

SpecWeb == InitWeb /\ [][NextWeb]_vars

\* The load alone: the durable list the process starts with is any list of
\* up to MaxRecords records, each one saved under the alias keys (valid),
\* saved under the field names, or not JSON at all; alert delivery is
\* switched off, so the worker only takes the loaded alerts from the queue.
MaxRecords == 4

RecordForms == {"alias", "byname", "corrupt"}

StoredRecord(i, f) ==
    [form |-> f, alert |-> (IF f = "corrupt" THEN None ELSE Alert(0 - i, Region))]

StoredLists ==
    UNION {{[i \in 1..n |-> StoredRecord(i, fs[i])] : fs \in [1..n -> RecordForms]}
             : n \in 0..MaxRecords}

InitLoad ==
    /\ CalendarAtRest
    /\ proc = "boot" /\ restarts = 0
    /\ durable \in StoredLists
    /\ subsAlerts = {1}
    /\ subsWeeks = subsAlerts
    /\ stats = subsAlerts
    /\ settingsAlerts = "false"
    /\ settingsWeeks = "true"
    /\ nextId = 1
    /\ prevSave = NoSave
    /\ FreshProcess

NextLoad == Boot \/ WorkerCheckSettings

SpecLoad == InitLoad /\ [][NextLoad]_vars

\* The kill-switches: two alerts replayed from the durable list, week
\* transitions, an admin writing the two settings at any moment, and the
\* exit sequence (which takes the worker into its drain loop); the settings
\* start with any value, or none.
InitSwitch ==
    /\ CalendarAtRest
    /\ proc = "boot" /\ restarts = 0
    /\ durable = <<InitialRecord(1), InitialRecord(2)>>
    /\ subsAlerts = {1}
    /\ subsWeeks = subsAlerts
    /\ stats = subsAlerts
    /\ settingsAlerts \in SettingValues
    /\ settingsWeeks \in SettingValues
    /\ nextId = 1
    /\ prevSave = NoSave
    /\ FreshProcess

NextSwitch ==
    \/ Boot
    \/ WorkerNext
    \/ WeeksNext
    \/ SettingsWrite
    \/ ManagerNext

SpecSwitch == InitSwitch /\ [][NextSwitch]_vars

\* The stop: two alerts replayed from the durable list and the exit sequence,
\* with the event loop running the worker task whenever it is ready (every
\* awaited call of the worker returns).
InitStop ==
    /\ CalendarAtRest
    /\ proc = "boot" /\ restarts = 0
    /\ durable = <<InitialRecord(1), InitialRecord(2)>>
    /\ subsAlerts = {1}
    /\ subsWeeks = subsAlerts
    /\ stats = subsAlerts
    /\ settingsAlerts \in {"true", "false"}
    /\ settingsWeeks = "true"
    /\ nextId = 1
    /\ prevSave = NoSave
    /\ FreshProcess

NextStop ==
    \/ Boot
    \/ WorkerNext
    \/ ManagerNext

SpecStop == InitStop /\ [][NextStop]_vars /\ WF_vars(WorkerNext)

\* The coordinator alone, as its interface allows it to be used: any set of
\* the cancel_on_exit tasks is tracked (none included), a tracked task may
\* return on its own, and wait() drops the finished tasks from _trackings.
\* A task that is not tracked does not exist (its state is "done"; the
\* worker has "stopped").
TaskReturns ==
    /\ proc = "running"
    /\ \E t \in CancelOnExit :
          /\ tstate[t] = "run"
          /\ tstate' = [tstate EXCEPT ![t] = "done"]
    /\ UNCHANGED <<proc, restarts, storeVars, queueVars, workerVars, exiting,
                   exitFuture, trackings, mpc, cbIdx, cbpc, saveBuf, weeksSD,
                   histVars, obsVars, weekVars, prevVars, delivered, mwVars, calVars>>

\* wait(): asyncio.wait returned with a task that finished without an
\* exception; it is removed from _trackings and the loop goes on.
WaitSeesDone ==
    /\ proc = "running" /\ mpc = "wait" /\ ~exitFuture
    /\ \E t \in trackings :
          /\ TaskDone(t) /\ ~TaskFailed(t)
          /\ trackings' = trackings \ {t}
    /\ UNCHANGED <<proc, restarts, storeVars, queueVars, workerVars, exiting,
                   exitFuture, mpc, cbIdx, cbpc, saveBuf, tstate, weeksSD,
                   histVars, obsVars, weekVars, prevVars, delivered, mwVars, calVars>>

InitManager ==
    /\ CalendarAtRest
    /\ proc = "running" /\ restarts = 0
    /\ durable = <<>>
    /\ subsAlerts = {1}
    /\ subsWeeks = subsAlerts
    /\ stats = subsAlerts
    /\ settingsAlerts = "true"
    /\ settingsWeeks = "true"
    /\ nextId = 1
    /\ prevSave = NoSave
    /\ queue = <<>> /\ unfinished = 0 /\ alertsSD = FALSE /\ webReq = NoRequest
    /\ workerSD = FALSE /\ wpc = "stopped" /\ wmode = "main" /\ walert = None
    /\ takenWith = "unset" /\ prevAlert = None /\ passedPrev = None
    /\ delivered = {}
    /\ mwpc = "idle" /\ mwchat = NoChat /\ mwin = FALSE /\ autosub = {}
    /\ wsnap = {} /\ wchat = NoChat /\ wmig = NoChat
    /\ exiting = FALSE /\ exitFuture = FALSE
    /\ trackings \in SUBSET CancelOnExit
    /\ tstate = [t \in CancelOnExit |-> IF t \in trackings THEN "run" ELSE "done"]
    /\ mpc = "wait" /\ cbIdx = 0 /\ cbpc = "none" /\ saveBuf = <<>>
    /\ weeksSD = FALSE
    /\ enq = <<>> /\ fanned = <<>> /\ completed = {} /\ attempts = <<>>
    /\ signals = 0 /\ sentinelAt = NoSentinel /\ saveLog = NoSave /\ loaded = <<>>
    /\ blocked = {} /\ backlog = <<>>
    /\ wkpc = "sleep" /\ weeksSeen = 0 /\ announced = {}

NextManager ==
    \/ TaskReturns \/ TaskFails \/ TaskCancelled
    \/ WaitSeesDone \/ WaitSeesFailure \/ WaitSeesExitFuture
    \/ Trigger
    \/ CbAppShutdown \/ CbWeeksShutdown \/ CbWorkerShutdown
    \/ CbAlertsShutdown \/ CbAlertsResumes \/ CbSaveDrain
    \/ CallbackRaises \/ CallbackDone \/ CallbackTimeout
    \/ CancelTasks \/ WaitTasksDone \/ WaitTasksTimeout \/ WaitCancelledTimeout
    \/ Release \/ ProcessEnds

SpecManager == InitManager /\ [][NextManager]_vars

\* ------------------------------------------------ subscribe_all middleware
\* A message from a group chat reaches the middleware: update_stats is
\* awaited.
MwMessage ==
    /\ proc = "running" /\ mwpc = "idle"
    /\ \E c \in Chats : mwchat' = c
    /\ mwpc' = "update_stats"
    /\ UNCHANGED <<proc, restarts, storeVars, queueVars, workerVars, mgrVars,
                   histVars, obsVars, weekVars, prevVars, delivered, mwin, autosub,
                   calVars>>

\* update_stats returns (hset of the chat's record, or hdel when the bot is
\* no member): check_settings("subscribe_all") is awaited.
MwUpdateStats ==
    /\ proc = "running" /\ mwpc = "update_stats"
    /\ \/ stats' = stats \cup {mwchat}
       \/ stats' = stats \ {mwchat}
    /\ mwpc' = "settings"
    /\ UNCHANGED <<proc, restarts, durable, subsAlerts, subsWeeks, settingsAlerts,
                   settingsWeeks, queueVars, workerVars, mgrVars, histVars, obsVars,
                   weekVars, prevVars, delivered, mwchat, mwin, autosub, calVars>>

\* check_settings("subscribe_all") returns for whatever the settings hash
\* holds: _is_subscribed is awaited, or the handler is called.
MwCheckSettings ==
    /\ proc = "running" /\ mwpc = "settings"
    /\ \E v \in SettingValues :
          mwpc' = (IF check_settings(v) THEN "sismember_alerts" ELSE "idle")
    /\ UNCHANGED <<proc, restarts, storeVars, queueVars, workerVars, mgrVars,
                   histVars, obsVars, weekVars, prevVars, delivered, mwchat, mwin,
                   autosub, calVars>>

\* _is_subscribed: the two sismember calls, one await each, then `or`; a
\* chat in neither set goes on to the first sadd.
MwIsSubscribed ==
    /\ proc = "running"
    /\ \/ /\ mwpc = "sismember_alerts"
          /\ mwin' = (mwchat \in subsAlerts)
          /\ mwpc' = "sismember_weeks"
       \/ /\ mwpc = "sismember_weeks"
          /\ mwpc' = (IF mwin \/ mwchat \in subsWeeks THEN "idle" ELSE "sadd_alerts")
          /\ UNCHANGED mwin
    /\ UNCHANGED <<proc, restarts, storeVars, queueVars, workerVars, mgrVars,
                   histVars, obsVars, weekVars, prevVars, delivered, mwchat, autosub,
                   calVars>>

\* The two sadd calls, one await each; then the handler is called.
MwSubscribe ==
    /\ proc = "running"
    /\ \/ /\ mwpc = "sadd_alerts"
          /\ subsAlerts' = SAdd(subsAlerts, mwchat)
          /\ mwpc' = "sadd_weeks"
          /\ UNCHANGED <<subsWeeks, autosub>>
       \/ /\ mwpc = "sadd_weeks"
          /\ subsWeeks' = SAdd(subsWeeks, mwchat)
          /\ autosub' = autosub \cup {mwchat}
          /\ mwpc' = "idle"
          /\ UNCHANGED subsAlerts
    /\ UNCHANGED <<proc, restarts, durable, stats, settingsAlerts, settingsWeeks,
                   queueVars, workerVars, mgrVars, histVars, obsVars, weekVars,
                   prevVars, delivered, mwchat, mwin, calVars>>

MiddlewareNext ==
    MwMessage \/ MwUpdateStats \/ MwCheckSettings \/ MwIsSubscribed \/ MwSubscribe

\* The subscriber sets under two writers: one alert replayed from the durable
\* list is fanned out while messages from the group chats go through the
\* middleware; a chat starts subscribed to alerts, and to the week
\* announcements or not (/settings switches each one by itself).
InitSubs ==
    /\ CalendarAtRest
    /\ proc = "boot" /\ restarts = 0
    /\ durable = <<InitialRecord(1)>>
    /\ subsAlerts \in SUBSET Chats
    /\ subsWeeks \in SUBSET subsAlerts
    /\ stats = subsAlerts
    /\ settingsAlerts = "true"
    /\ settingsWeeks = "true"
    /\ nextId = 1
    /\ prevSave = NoSave
    /\ FreshProcess

NextSubs == Boot \/ WorkerNext \/ MiddlewareNext

SpecSubs == InitSubs /\ [][NextSubs]_vars

\* The study-week arithmetic over every week of short and long years, with
\* the key unset, "0" or "1".
InitCalendar ==
    /\ yearWeeks \in {ShortYear, LongYear}
    /\ isoWeek \in 1..yearWeeks
    /\ invertWeeks \in {NoValue, "0", "1"}
    /\ weekAnswer = NoAnswer
    /\ proc = "boot" /\ restarts = 0
    /\ durable = <<>>
    /\ subsAlerts = {}
    /\ subsWeeks = {}
    /\ stats = {}
    /\ settingsAlerts = "true"
    /\ settingsWeeks = "true"
    /\ nextId = 1
    /\ prevSave = NoSave
    /\ FreshProcess

NextCalendar == Boot \/ MondayComes \/ GetWeek \/ InvertWeeks

SpecCalendar == InitCalendar /\ [][NextCalendar]_vars

\* ================================================================ claims
\* Position of x in the sequence s.
PosIn(s, x) == CHOOSE i \in DOMAIN s : s[i] = x

\* C1 -- FIFO delivery: the alerts whose fan-out the worker has started in
\* this run were all put on the queue in this run, their fan-outs started in
\* the order of their enqueueing, and every fan-out but the latest one has
\* run to its end before the next one started.
C1_FifoDelivery ==
    /\ \A i \in DOMAIN fanned : \E k \in DOMAIN enq : enq[k] = fanned[i]
    /\ \A i, j \in DOMAIN fanned :
          i < j => /\ PosIn(enq, fanned[i]) < PosIn(enq, fanned[j])
                   /\ fanned[i] \in completed

\* C1 witness: a second alert, enqueued while the worker was busy with the
\* first, is being fanned out in the drain loop.
C1_Witness ==
    /\ Len(fanned) >= 2 /\ wmode = "drain" /\ wpc = "send"
    /\ fanned[1] \in completed

\* The record of alert a is in the durable list.
InDurable(a) == \E k \in DOMAIN durable : durable[k].alert = a

\* C2 -- at-least-once under graceful shutdown: when the process has ended
\* with exit code 0 after one signal, with alert delivery enabled and the
\* worker not having failed, every alert that was put on the queue in this
\* run has been fanned out completely or is in the durable list.
C2_AtLeastOnce ==
    (proc = "exited0" /\ signals = 1 /\ check_settings(settingsAlerts) /\ wpc # "failed")
        => \A k \in DOMAIN enq : enq[k] \in completed \/ InDurable(enq[k])

\* The alerts of the durable list as LRANGE 0 -1 returns them.
DurableAlerts == [k \in DOMAIN LRangeAll(durable) |-> LRangeAll(durable)[k].alert]

\* Sequences with the same elements, each once.
SameAlerts(s, t) == Len(s) = Len(t) /\ SeqToSet(s) = SeqToSet(t)

\* C3 -- save/load round trip: in a process started after a run whose
\* save_alerts_state ran to its end, the alerts that load_alerts_state put on
\* the queue are exactly the alerts the save took from the queue, each once.
C3_RoundTrip ==
    (restarts >= 1 /\ proc = "running" /\ prevSave.finished)
        => SameAlerts(loaded, prevSave.took)

\* C4 -- persisted order: once save_alerts_state has run to its end, the
\* durable list read head first holds the saved alerts in the order in which
\* they were queued.
C4_PersistedOrder ==
    saveLog.finished => DurableAlerts = saveLog.took

\* C5 -- drain completes: when the worker has returned from run() after the
\* sentinel was put while it was still running, every alert that was put on
\* the queue before the sentinel has been fanned out (alert delivery being
\* enabled).
C5_DrainCompletes ==
    (/\ wpc = "stopped" /\ check_settings(settingsAlerts)
     /\ sentinelAt.pos >= 0 /\ sentinelAt.running)
        => \A k \in 1..sentinelAt.pos : enq[k] \in completed

\* The steps by which the exit sequence proceeds on its own: the resumption
\* of wait(), a callback task's first step, the end of a wait by completion
\* or by its timeout, the release of resources and the end of the process.
ExitSequenceStep ==
    \/ WaitSeesExitFuture \/ WaitSeesFailure
    \/ (cbpc = "start" /\ (CbAppShutdown \/ CbWeeksShutdown \/ CbWorkerShutdown
                              \/ CbAlertsShutdown \/ CbSaveDrain))
    \/ CallbackDone \/ CallbackTimeout
    \/ CancelTasks \/ WaitTasksDone \/ WaitTasksTimeout \/ WaitCancelledTimeout
    \/ Release \/ ProcessEnds

\* C6 -- bounded shutdown: from every state of the exit sequence the sequence
\* can proceed by itself (a completion it has seen or a timeout), whatever
\* the callbacks and the tracked tasks do, until the process has ended.
C6_BoundedShutdown ==
    (proc = "running" /\ mpc \notin {"boot", "wait"}) => ENABLED ExitSequenceStep

\* C7 -- double-signal hard exit: a trigger() with _exiting set ends the
\* process in that very step and touches nothing else; a trigger() with
\* _exiting clear only sets the flag and resolves the exit future; and a
\* killed process takes no further step.
C7_DoubleSignalHardExit ==
    [][/\ proc # "killed"
       /\ signals' = signals + 1 =>
             IF exiting
             THEN /\ proc' = "killed"
                  /\ UNCHANGED <<restarts, storeVars, queueVars, workerVars, mgrVars,
                                 enq, fanned, completed, attempts, sentinelAt,
                                 saveLog, prevSave, loaded, obsVars, weekVars,
                                 prevVars, delivered, mwVars, calVars>>
             ELSE /\ proc' = "running" /\ exiting' /\ exitFuture'
                  /\ UNCHANGED <<mpc, cbIdx, cbpc, tstate, wpc>>]_vars

\* C7 witness: the process was killed by a second signal while the exit
\* callback alerts.shutdown was still suspended in queue.join().
C7_Witness ==
    proc = "killed" /\ mpc = "callbacks" /\ cbpc = "join" /\ signals = 2

\* C8 -- failure-triggered shutdown is the EXITING state: whenever the
\* coordinator is in its exit sequence the _exiting flag is set.
C8_FailureSetsExiting ==
    (proc = "running" /\ mpc \notin {"boot", "wait"}) => exiting

\* C9 -- per-recipient failure isolation: no delivery attempt (the first one
\* or the retry to a migrated chat id) makes the worker task fail.
C9_FailureIsolation ==
    [][(wpc \in {"send", "migrate_retry"}) => (wpc' # "failed")]_vars

\* C10 -- migration handling: the handling of a chat X that signalled
\* migration to Y ends with one further attempt, to Y, with X out of and Y in
\* the alert subscriber set, and the fan-out goes on (the throttle sleep,
\* then the next chat).
C10_MigrationHandling ==
    [][(wpc = "migrate_retry") =>
          (/\ attempts' = Append(attempts, wmig)
           /\ wchat \notin subsAlerts' /\ wmig \in subsAlerts'
           /\ wpc' = "sleep")]_vars

\* The chat of the latest delivery attempt of the current fan-out.
LastAttempt(a) == a[Len(a)]

\* The forbidden handler is still between the signal and its second SREM.
Pruning(c) ==
    wchat = c /\ wpc \in {"forbidden_srem_alerts", "forbidden_srem_weeks"}

C12_RegionInvariant ==
    /\ \A i \in DOMAIN queue : queue[i] = None \/ queue[i].region_id = Region
    /\ walert = None \/ walert.region_id = Region

\* C12 witness: a valid webhook event for another region has been answered
\* while an alert of the configured region waits in the queue.
C12_Witness ==
    /\ webReq.kind = "ok" /\ webReq.region_id = OtherRegion
    /\ webReq.status = StatusOk /\ ~alertsSD
    /\ Len(queue) >= 1

\* C13 -- matching events are always queued: a request that has been
\* answered and whose body was a valid alert of the configured region has
\* been put on the queue, in every state the handler can run in.
C13_MatchingQueued ==
    (webReq.status # Pending /\ webReq.kind = "ok" /\ webReq.region_id = Region)
        => webReq.queued

\* C13, amended -- matching events are queued unless shutdown has begun: a
\* valid alert of the configured region that was answered before the
\* shutdown flag was set is on the queue, and so is every such alert whose
\* handler got past the shutdown test.
C13_MatchingQueuedBeforeShutdown ==
    /\ []((webReq.status # Pending /\ webReq.kind = "ok"
              /\ webReq.region_id = Region /\ ~alertsSD) => webReq.queued)
    /\ [][(webReq.status = Pending /\ webReq'.status # Pending
              /\ webReq.kind = "ok" /\ webReq.region_id = Region)
             => webReq'.queued]_vars

\* C13 witness: a valid alert of the configured region has been answered 200
\* and queued while the service was not shutting down.
C13_Witness ==
    /\ webReq.kind = "ok" /\ webReq.region_id = Region
    /\ webReq.status = StatusOk /\ webReq.queued /\ ~alertsSD
    /\ Len(queue) >= 1 /\ queue[Len(queue)].region_id = Region

\* C14 -- webhook outcome mapping: an answered request got 400 exactly when
\* its body was not JSON or failed validation, and then nothing was queued;
\* otherwise it got 200, and a 200 means the alert was queued or was of
\* another region.
C14_OutcomeMapping ==
    webReq.status # Pending =>
        /\ webReq.status = StatusError <=> webReq.kind \in {"badjson", "badschema"}
        /\ webReq.status = StatusError => ~webReq.queued
        /\ webReq.status # StatusError => webReq.status = StatusOk
        /\ webReq.status = StatusOk =>
               webReq.queued \/ ~RegionMatches(webReq.region_id)

\* `self._loop.create_task(exit_cb())` has been executed for the j-th
\* registered callback in this exit sequence.
Started(j) == mpc = "callbacks" /\ j <= cbIdx

\* The running callback's task is suspended at an await.
CallbackSuspended ==
    proc = "running" /\ mpc = "callbacks" /\ cbpc \in {"run", "network", "join", "push"}

\* C15 -- exit callbacks run concurrently: whenever a callback is suspended
\* inside the exit sequence, every registered callback has been started.
C15_CallbacksConcurrent ==
    CallbackSuspended => \A j \in DOMAIN ExitCbs : Started(j)

\* C16 -- callback overrun isolation: whatever a callback does (returns,
\* raises, is cut by its timeout), the coordinator's next step out of it
\* starts the next registered callback, or after the last one goes on to
\* waiting for the tasks; only a second signal ends the sequence earlier.
C16_OverrunIsolation ==
    [][(proc = "running" /\ mpc = "callbacks" /\ proc' # "killed")
         => /\ proc' = "running"
            /\ \/ mpc' = "callbacks" /\ cbIdx' = cbIdx
               \/ mpc' = "callbacks" /\ cbIdx' = cbIdx + 1 /\ cbpc' = "start"
               \/ cbIdx = Len(ExitCbs) /\ mpc' = "cancel_tasks"]_vars

\* C16 witness: save_alerts_state took alerts from the queue and was cut or
\* raised before pushing them all, and the coordinator is waiting for the
\* tracked tasks.
C16_Witness ==
    /\ proc = "running" /\ mpc = "wait_tasks"
    /\ saveLog.took # <<>> /\ ~saveLog.finished

\* C17 -- save never overlaps the worker: a step in which save_alerts_state
\* empties a non-empty queue is taken only when the worker task is no
\* longer inside its loop.
C17_SaveNeverOverlaps ==
    [][(CallbackIs("save_alerts_state") /\ cbpc = "start" /\ cbpc' # "start"
          /\ queue # <<>> /\ queue' = <<>>)
         => ~WorkerRunning]_vars

\* Queue.put_nowait adds one to the length and to the counter of unfinished
\* tasks, a dequeue takes one from the length, task_done one from the
\* counter: the dequeues not yet marked processed.
Unmarked == unfinished - Len(queue)

\* An item has been dequeued and its handling has not ended: the worker
\* holds an alert, or save_alerts_state holds alerts it has not pushed.
InFlight == walert # None \/ saveBuf # <<>>

\* C18 -- drain accounting: mark-processed has been called at most as often
\* as items were dequeued, and exactly as often whenever no item is in
\* flight.
C18_DrainAccounting ==
    /\ Unmarked >= 0
    /\ ~InFlight => Unmarked = 0

\* The positions of the sentinel in a queue content.
SentinelsIn(q) == {i \in DOMAIN q : q[i] = None}

\* The coordinator has left _call_exit_callbacks.
CallbacksOver ==
    mpc \in {"cancel_tasks", "wait_tasks", "wait_cancelled", "release", "runner_close"}

\* C19 -- sentinel handling: the sentinel is put on the queue at most once in
\* a run; once it has left the queue it does not come back, and it has left
\* by the time the exit callbacks are over; it is never fanned out, held by
\* the worker as an alert, kept by save_alerts_state or written to the
\* durable list; and the step that removes it keeps every real alert that
\* was queued (with the worker, with save_alerts_state or on the queue).
C19_SentinelHandling ==
    /\ [](Cardinality(SentinelsIn(queue)) <= 1)
    /\ [][sentinelAt' # sentinelAt => sentinelAt = NoSentinel]_vars
    /\ [][(sentinelAt # NoSentinel /\ SentinelsIn(queue) = {})
            => SentinelsIn(queue') = {}]_vars
    /\ []((CallbacksOver \/ proc = "exited0") => SentinelsIn(queue) = {})
    /\ [](/\ SentinelsIn(fanned) = {}
          /\ SentinelsIn(saveBuf) = {}
          /\ \A i \in DOMAIN durable : durable[i].alert # None
          /\ wpc \in {"settings", "smembers", "send", "sleep"} => walert # None)
    /\ [][(SentinelsIn(queue) # {} /\ SentinelsIn(queue') = {})
            => SeqToSet(RealAlerts(queue))
                 \subseteq SeqToSet(queue') \cup {walert'} \cup SeqToSet(saveBuf')]_vars

\* C19 witness: the sentinel was put behind a waiting real alert while the
\* worker was busy in its main loop, where it still is; save_alerts_state
\* has taken both from the queue and holds the real alert only.
C19_Witness ==
    /\ sentinelAt # NoSentinel /\ sentinelAt.running
    /\ wmode = "main" /\ wpc = "sleep"
    /\ SentinelsIn(queue) = {}
    /\ CallbackIs("save_alerts_state") /\ cbpc = "push"
    /\ saveLog.took # <<>> /\ saveBuf = saveLog.took

\* C20 -- worker crash keeps the backlog: when the process has exited after
\* one signal at most, every alert that was in the queue at the moment the
\* worker task failed is in the durable list.
C20_CrashKeepsBacklog ==
    (proc = "exited0" /\ signals <= 1)
        => \A i \in DOMAIN backlog : InDurable(backlog[i])

\* The coordinator is inside the exit sequence (_exit has been entered).
InExitSequence == proc = "running" /\ mpc \notin {"boot", "wait"}

\* The coordinator is in _wait_tasks, past its cancel loop.
WaitingForTasks == proc = "running" /\ mpc \in {"wait_tasks", "wait_cancelled"}

\* C21 -- cancellation policy, as worded: from the entry of the exit
\* sequence on, no cancel_on_exit task is left running uncancelled; and the
\* worker is found cancelled only once the primary task wait has timed out.
C21_CancelOnEntry ==
    /\ InExitSequence => \A t \in CancelOnExit : tstate[t] # "run"
    /\ (proc = "running" /\ wpc = "cancelled")
           => mpc \in {"wait_cancelled", "release", "runner_close"}

\* C21, amended -- cancellation policy: the cancel_on_exit tasks are
\* cancelled after the exit callbacks, when the task wait begins (none is
\* left running uncancelled while the coordinator waits for the tasks or
\* later); the worker is cancelled only by the step in which the primary
\* task wait times out, and only if it is still running then.
C21_CancelBeforeTaskWait ==
    /\ []((WaitingForTasks \/ (proc = "running" /\ mpc \in {"release", "runner_close"}))
            => \A t \in CancelOnExit : tstate[t] # "run")
    /\ [][(wpc # "cancelled" /\ wpc' = "cancelled")
            => (mpc = "wait_tasks" /\ mpc' = "wait_cancelled" /\ WorkerRunning)]_vars

\* C21 witness: the primary task wait has timed out with the worker still in
\* a fan-out, and the worker has been cancelled; the webserver was cancelled
\* before the wait.
C21_Witness ==
    /\ proc = "running" /\ mpc = "wait_cancelled"
    /\ wpc = "cancelled" /\ walert # None
    /\ tstate["webserver"] \in {"cancelling", "cancelled"}

\* C22 -- exit state is one-way: while the coordinator waits and no signal
\* has come, the flag is false and the future unresolved; neither is ever
\* reset in a run; and every signal that does not end the process at once
\* (and so calls set_result) finds the future unresolved.
C22_ExitStateOneWay ==
    /\ []((proc = "running" /\ signals = 0) => (~exiting /\ ~exitFuture))
    /\ [][(exiting => exiting') /\ (exitFuture => exitFuture')]_vars
    /\ [][(signals' # signals /\ proc' = "running") => ~exitFuture]_vars

\* C22 witness: a second signal has come during the exit sequence and has
\* ended the process without touching the resolved future.
C22_Witness ==
    proc = "killed" /\ signals = 2 /\ exiting /\ exitFuture /\ mpc = "callbacks"

\* A step in which task.cancel() takes effect on a tracked task.
CancelStep ==
    \/ wpc # "cancelled" /\ wpc' = "cancelled"
    \/ \E t \in DOMAIN tstate : tstate[t] # "cancelling" /\ tstate'[t] = "cancelling"

\* C23 -- order of the graceful exit sequence: a tracked task is cancelled
\* only when the exit callbacks are over; the resources are released only
\* from the end of the task wait; the process ends with code 0 only after
\* the resources were released; a forced exit is the second signal's and
\* never has code 0, and a process that has ended with one signal at most has
\* ended with code 0.
C23_ExitOrder ==
    /\ [][CancelStep => CallbacksOver]_vars
    /\ [][(mpc # "release" /\ mpc' = "release") => WaitingForTasks]_vars
    /\ [][(mpc # "runner_close" /\ mpc' = "runner_close") => mpc = "release"]_vars
    /\ [][(proc # "exited0" /\ proc' = "exited0") => mpc = "runner_close"]_vars
    /\ [][(proc # "killed" /\ proc' = "killed")
            => (exiting /\ signals' = signals + 1)]_vars
    /\ [](proc = "killed" => signals >= 2)
    /\ []((proc \in {"exited0", "killed"} /\ signals <= 1) => proc = "exited0")

\* C23 witness: one signal, the whole sequence, the webserver cancelled in
\* the task wait, exit code 0.
C23_Witness ==
    /\ proc = "exited0" /\ signals = 1 /\ exiting
    /\ mpc = "runner_close" /\ tstate["webserver"] = "cancelled"

\* The alerts of the records of d that validate, in the order of d.
ValidAlerts(d) ==
    [i \in 1..Len(SelectSeq(d, ValidationOk)) |-> SelectSeq(d, ValidationOk)[i].alert]

\* What the queue and the worker hold together, oldest first.
Held == IF walert = None THEN queue ELSE <<walert>> \o queue

\* C24 -- load tolerates corruption: the start of the process puts on the
\* queue exactly the alerts of the durable records that validate, in the
\* order of the durable list, whatever invalid records lie between them;
\* the process is running afterwards and the durable list is empty.
C24_LoadToleratesCorruption ==
    [][(proc = "boot" /\ proc' # "boot")
         => /\ proc' = "running" /\ wpc' # "failed"
            /\ enq' = ValidAlerts(durable)
            /\ Held' = ValidAlerts(durable)
            /\ unfinished' = Len(ValidAlerts(durable))
            /\ durable' = <<>>]_vars

\* C24 witness: the durable list was invalid, valid, invalid; the process
\* has started and holds the one valid alert, the second record's.
C24_Witness ==
    /\ proc = "running" /\ durable = <<>>
    /\ loaded = <<Alert(0 - 2, Region)>> /\ walert = Alert(0 - 2, Region)
    /\ enq = loaded /\ queue = <<>>

\* C25 -- global kill-switch, as worded: the worker enters a fan-out only
\* for an alert that it took from the queue with the field "alerts" equal to
\* "true", and the weeks task announces a week only with the field "weeks"
\* equal to "true".
C25_KillSwitchWhenTaken ==
    /\ [][(wpc # "smembers" /\ wpc' = "smembers")
            => (wpc = "settings" /\ takenWith = "true")]_vars
    /\ [][(wkpc # "send_week" /\ wkpc' = "send_week")
            => (wkpc = "settings" /\ settingsWeeks = "true")]_vars

\* C25, amended -- global kill-switch: the worker enters a fan-out only from
\* its settings check and only with the field "alerts" equal to "true" when
\* that check reads it, in either loop; an alert enters the log of fan-outs
\* only there; a delivery is attempted only for the alert whose fan-out was
\* started last; an alert the worker marks processed straight from the
\* check had the field at another value, or unset, and was not fanned out.
\* The same for the weekly announcement and the field "weeks".
C25_KillSwitch ==
    /\ [][(wpc # "smembers" /\ wpc' = "smembers")
            => (wpc = "settings" /\ settingsAlerts = "true" /\ walert' = walert)]_vars
    /\ [][fanned' # fanned
            => (wpc = "smembers" /\ fanned' = Append(fanned, walert))]_vars
    /\ [][(attempts' # attempts /\ attempts' # <<>>)
            => (walert # None /\ fanned # <<>> /\ fanned[Len(fanned)] = walert)]_vars
    /\ [][(wpc = "settings" /\ unfinished' < unfinished)
            => (settingsAlerts # "true" /\ walert \notin SeqToSet(fanned'))]_vars
    /\ [][(wkpc # "send_week" /\ wkpc' = "send_week")
            => (wkpc = "settings" /\ settingsWeeks = "true")]_vars
    /\ [][announced' # announced
            => (wkpc = "settings" /\ wkpc' = "send_week"
                  /\ announced' = announced \cup {weeksSeen})]_vars
    /\ [][(wkpc = "settings" /\ wkpc' = "sleep")
            => (settingsWeeks # "true" /\ announced' = announced)]_vars

\* C25 witness: the first alert and the first week transition were passed
\* over with the switches off; an admin has switched both on; the second
\* alert is being fanned out from the drain loop and the second transition
\* has been announced.
C25_Witness ==
    /\ fanned = <<Alert(0 - 2, Region)>> /\ wmode = "drain" /\ wpc = "sleep"
    /\ weeksSeen = 2 /\ announced = {2}
    /\ settingsAlerts = "true" /\ settingsWeeks = "true"

\* The worker's steps inside one _send_alert call.
InFanOut ==
    wpc \in {"smembers", "send", "migrate_chat", "migrate_sadd", "migrate_srem",
             "migrate_retry", "forbidden_srem_alerts", "forbidden_srem_weeks",
             "update_stats", "sleep"}

\* The alert whose fan-out the worker began last in this run.
LastFanned == IF fanned = <<>> THEN None ELSE fanned[Len(fanned)]

ShutdownRequested == workerSD /\ sentinelAt # NoSentinel

\* C27 as stated: once the worker's flag is set and the sentinel is on the
\* queue, a worker whose awaited calls return (none raises) eventually
\* returns from run.
C27_WorkerReturns ==
    (ShutdownRequested /\ WorkerRunning) ~> (wpc \in {"stopped", "failed"})

\* C27 -- once the worker's flag is set and the sentinel is on the queue, the
\* worker starts no blocking dequeue any more and, its awaited calls
\* returning, eventually returns from run unless the coordinator cancels it
\* first (the task-wait deadline) or a second signal ends the process; once
\* it has returned it stays returned and delivers nothing more.
C27_WorkerStops ==
    /\ [][ShutdownRequested => (wpc' # "get")]_vars
    /\ [][(wpc = "stopped")
            => (wpc' = "stopped" /\ attempts' = attempts /\ fanned' = fanned)]_vars
    /\ (ShutdownRequested /\ WorkerRunning)
          ~> (wpc \in {"stopped", "failed", "cancelled"} \/ proc # "running")

\* The worker has returned from run after a shutdown that found it in the
\* middle of the first alert's fan-out; it has fanned out both alerts.
C27_Witness ==
    /\ ShutdownRequested /\ wpc = "stopped"
    /\ sentinelAt.running /\ Len(fanned) = 2 /\ fanned[2] \in completed

\* C28 -- AlertsService.shutdown finishes by itself: when the worker has
\* drained the queue to empty and returned while the callback is suspended in
\* queue.join(), nothing is left unfinished, so the join returns (whether
\* the shutdown found the worker blocked on the empty queue or in the middle
\* of a fan-out).
C28_JoinReturns ==
    (/\ CallbackIs("alerts.shutdown") /\ cbpc = "join"
     /\ sentinelAt.running /\ wpc = "stopped" /\ queue = <<>>)
        => unfinished = 0

\* save_alerts_state has emptied the queue in this run.
SaveDrained == proc = "running" /\ saveLog # NoSave

\* _handle_webhook puts an alert on the queue.
WebhookEnqueues == webReq.status = Pending /\ webReq' # webReq /\ enq' # enq

\* C29, first part -- the exit callbacks run one at a time in registration
\* order: the coordinator moves from callback i to callback i + 1 only, and
\* only when callback i has completed or its wait has timed out.
C29_OneAtATime ==
    [][(mpc = "callbacks" /\ cbIdx' # cbIdx)
         => (/\ cbpc \in {"done", "run", "network", "join", "push"}
             /\ IF cbIdx < Len(ExitCbs)
                THEN cbIdx' = cbIdx + 1 /\ cbpc' = "start"
                ELSE mpc' = "cancel_tasks")]_vars

\* C29, second part -- save_alerts_state starts only after the worker's
\* flag and the alert service's flag are set and the sentinel is enqueued.
C29_SaveAfterFlags ==
    CallbackIs("save_alerts_state") => (workerSD /\ alertsSD /\ ShutdownRequested)

\* C29 -- the exit callbacks run one at a time in registration order, so
\* save_alerts_state starts only after both shutting-down flags are set and
\* the sentinel is enqueued, and no webhook event is enqueued after the save
\* has drained the queue.
C29_CallbackOrder ==
    /\ C29_OneAtATime
    /\ []C29_SaveAfterFlags
    /\ [][SaveDrained => ~WebhookEnqueues]_vars

\* C30 -- no stranded alerts: once save_alerts_state has emptied the queue,
\* nothing (webhook handler, /trigger command, replay) puts an alert on the
\* queue for the rest of the run; and when the process exits after a
\* graceful shutdown the queue holds no real alert.
C30_NoStrandedAlerts ==
    /\ [][SaveDrained
            => (enq' = enq /\ Len(RealAlerts(queue')) <= Len(RealAlerts(queue)))]_vars
    /\ [](proc = "exited0" => RealAlerts(queue) = <<>>)

\* C31 -- the exit sequence runs at most once in a run: _exit is entered
\* from wait() only, with the first callback, and the coordinator never
\* comes back to wait(); within _call_exit_callbacks the coordinator only
\* moves forward, one callback at a time, so no callback is invoked twice,
\* whatever signals and task failures come together.
C31_ExitOnce ==
    /\ [][(mpc # "callbacks" /\ mpc' = "callbacks")
            => (mpc = "wait" /\ cbIdx' = 1 /\ cbpc' = "start")]_vars
    /\ [][(mpc \notin {"boot", "wait"}) => (mpc' \notin {"boot", "wait"})]_vars
    /\ [][(mpc = "callbacks" /\ mpc' = "callbacks")
            => (/\ cbIdx' \in {cbIdx, cbIdx + 1}
                /\ (cbpc # "start" /\ cbpc' = "start") => (cbIdx' = cbIdx + 1)
                /\ (cbIdx' = cbIdx + 1) => (cbpc # "start" /\ cbpc' = "start"))]_vars
    /\ [][(mpc = "callbacks" /\ mpc' # "callbacks") => (cbIdx = Len(ExitCbs))]_vars

\* The exit sequence is past its callbacks after a signal, with both other
\* tracked tasks failed and the failures never looked at by wait().
C31_Witness ==
    /\ proc = "running" /\ mpc = "release" /\ exitFuture
    /\ tstate["webserver"] = "failed" /\ tstate["weeks"] = "failed"
    /\ {"webserver", "weeks"} \subseteq trackings

\* C32 -- migration moves every subscription: when the worker has handled
\* "chat X migrated to Y" (migrate_chat, srem and sadd done, the retry
\* pending), X is in neither subscriber set, Y is in the alerts set and in
\* the weeks set if X was there (the handling never writes the weeks set, so
\* X was there exactly if it still is), and the stats record is Y's.
C32_MigrationMoves ==
    (wpc = "migrate_retry")
        => /\ wchat \notin subsAlerts /\ wchat \notin subsWeeks
           /\ wmig \in subsAlerts
           /\ wchat \notin stats /\ wmig \in stats

\* A send of the current fan-out returns for chat c.
DeliveredTo(c) ==
    /\ wpc' = "sleep"
    /\ \/ wpc = "send" /\ wchat = c
       \/ wpc = "migrate_retry" /\ wmig = c

\* C33 -- at most one message per chat per alert: a send of a fan-out
\* returns for a chat only if no send of the same fan-out has returned for
\* that chat before, the migration target of another chat included.
C33_OneMessagePerChat ==
    [][\A c \in Chats : DeliveredTo(c) => c \notin delivered]_vars

\* C34 -- graceful exit with nothing left to wait for: when the exit
\* callbacks are over and no task is tracked any more, _exit skips the task
\* wait and goes on to release the resources (and so to exit code 0),
\* without raising; only a second signal ends the process otherwise.
C34_NothingToWaitFor ==
    [][(/\ mpc = "cancel_tasks" /\ trackings = {}
        /\ <<mpc, proc>>' # <<mpc, proc>> /\ proc' # "killed")
          => (proc' = "running" /\ mpc' = "release")]_vars

\* The worker is removing chat c from the subscriber sets.
RemovingBlocked(c) ==
    wchat = c /\ wpc \in {"forbidden_srem_alerts", "forbidden_srem_weeks"}

\* The middleware is busy with a message of chat c.
Subscribing(c) == mwchat = c /\ mwpc # "idle"

\* C35 -- subscription changes survive interleaving: once the middleware
\* has subscribed a chat and the worker has removed it as a blocked
\* recipient, and neither is at work on it any more, the chat is in both
\* subscriber sets or in neither.
C35_BothOrNeither ==
    \A c \in Chats :
        (c \in autosub /\ c \in blocked /\ ~RemovingBlocked(c) /\ ~Subscribing(c))
            => ((c \in subsAlerts) = (c \in subsWeeks))

\* WeeksService.run has left its loop or has been ended.
WeeksOver == tstate["weeks"] \in {"done", "failed", "cancelled"}

\* C36 -- one weekly announcement per week change: an announcement begins
\* only at the settings check of the week change the loop has just seen,
\* and that change has not been announced before; every settings check is
\* for a new week change, so a change announced or skipped is not handled
\* again; and once the loop has seen the shutting-down flag set at its top
\* (run has returned) no announcement begins.
C36_OneAnnouncementPerWeek ==
    /\ [][(announced' # announced)
            => (/\ wkpc = "settings" /\ wkpc' = "send_week"
                /\ weeksSeen \notin announced
                /\ announced' = announced \cup {weeksSeen})]_vars
    /\ [][(wkpc # "settings" /\ wkpc' = "settings")
            => (weeksSeen' = weeksSeen + 1 /\ ~weeksSD)]_vars
    /\ [][WeeksOver => (announced' = announced /\ wkpc' = wkpc)]_vars

\* Two week changes were seen: the first was skipped (the flag was off), the
\* second is being announced, and shutdown has set the flag meanwhile.
C36_Witness ==
    /\ weeksSeen = 2 /\ announced = {2} /\ wkpc = "send_week" /\ weeksSD

\* C37 -- study weeks alternate: get_studying_week_number returns 1 or 2,
\* flipping the invert flag flips the result, and when the calendar moves to
\* the next week (w to w+1, or the last week of a 52- or 53-week year to
\* week 1) with the flag unchanged the result becomes the inverse of what it
\* was: the week that begins is the one the /week answer of the week before
\* announced as next.
C37_StudyWeeksAlternate ==
    /\ [](get_week_number \in {1, 2})
    /\ [](get_studying_week_number(isoWeek, ~InvertFlag(invertWeeks))
            = WeekNumberInvert(get_week_number))
    /\ [][(isoWeek' # isoWeek /\ invertWeeks' = invertWeeks)
            => get_week_number' = WeekNumberInvert(get_week_number)]_vars
    /\ [][(/\ isoWeek' # isoWeek
            /\ weekAnswer.week = isoWeek /\ weekAnswer.value = invertWeeks)
            => get_week_number' = weekAnswer.next]_vars
====
